---- MODULE Spec2Model ----
(***************************************************************************)
(* Model of the Screener.in text-extraction core of stock-extractor.       *)
(*                                                                         *)
(* A JavaScript string is a sequence of one-character strings, so that the *)
(* regular expressions of the source are matched character by character.   *)
(* A JavaScript value is a record [k, m, x, s]:                            *)
(*   k = "null" | "undefined" | "obj"   the non-string, non-number values  *)
(*   k = "str"   a string, s its characters                                *)
(*   k = "num"   the finite number m * 10^x, m an integer; canonical form  *)
(*               has m = 0 /\ x = 0, or m not divisible by 10              *)
(*   k = "inf"   +Infinity (m = 1) or -Infinity (m = -1)                   *)
(*   k = "nan"   NaN                                                       *)
(*   k = "bool"  m = 1 for true, 0 for false                               *)
(* Numbers are exact decimals: the rounding error of IEEE-754 doubles is   *)
(* not modelled, their overflow to Infinity is.                            *)
(***************************************************************************)
EXTENDS Integers, Sequences, FiniteSets, TLC

VARIABLES
    numArg,     \* the argument of a direct call of parseIndianNumber
    numRes,     \* its return value, once the call has returned
    numPc       \* "call" before the call, "returned" after it, "off" when
                \* parseScreenerText is what runs

\* ---------------------------------------------------------------- bounds

\* The longest token enumerated exhaustively for parseIndianNumber.
MaxTokLen == 4

\* ------------------------------------------------------------ characters

\* The rupee sign (U+20B9).  src/src/format.js holds it as the three
\* characters its bytes E2 82 B9 give when read as ISO-8859-10; it is taken
\* for the sign there too.
Rupee == "₹"
\* The en dash (U+2013), which a TLA+ string cannot hold: one character.
EnDash == "<en dash>"
Digits == {"0", "1", "2", "3", "4", "5", "6", "7", "8", "9"}
LowerCase == <<"a","b","c","d","e","f","g","h","i","j","k","l","m",
               "n","o","p","q","r","s","t","u","v","w","x","y","z">>
UpperCase == <<"A","B","C","D","E","F","G","H","I","J","K","L","M",
               "N","O","P","Q","R","S","T","U","V","W","X","Y","Z">>
Letters == {LowerCase[i] : i \in 1..26} \cup {UpperCase[i] : i \in 1..26}
\* \s of a JavaScript regular expression, and the white space trim() removes
\* (the characters of it a TLA+ string can hold).
WhiteSpace == {" ", "\t", "\n", "\r", "\f"}
\* \w
WordChars == Letters \cup Digits \cup {"_"}

DigitVal(c) ==
    CASE c = "0" -> 0 [] c = "1" -> 1 [] c = "2" -> 2 [] c = "3" -> 3
      [] c = "4" -> 4 [] c = "5" -> 5 [] c = "6" -> 6 [] c = "7" -> 7
      [] c = "8" -> 8 [] c = "9" -> 9

DigitChar(d) ==
    CASE d = 0 -> "0" [] d = 1 -> "1" [] d = 2 -> "2" [] d = 3 -> "3"
      [] d = 4 -> "4" [] d = 5 -> "5" [] d = 6 -> "6" [] d = 7 -> "7"
      [] d = 8 -> "8" [] d = 9 -> "9"

\* ------------------------------------------------------ JavaScript values

Null == [k |-> "null", m |-> 0, x |-> 0, s |-> <<>>]
Undefined == [k |-> "undefined", m |-> 0, x |-> 0, s |-> <<>>]
Obj == [k |-> "obj", m |-> 0, x |-> 0, s |-> <<>>]
Str(s) == [k |-> "str", m |-> 0, x |-> 0, s |-> s]
Bool(b) == [k |-> "bool", m |-> IF b THEN 1 ELSE 0, x |-> 0, s |-> <<>>]
Infinity(sign) == [k |-> "inf", m |-> sign, x |-> 0, s |-> <<>>]
NaN == [k |-> "nan", m |-> 0, x |-> 0, s |-> <<>>]

RECURSIVE StripZeros(_, _)
StripZeros(m, x) ==
    IF m = 0 THEN <<0, 0>>
    ELSE IF m % 10 = 0 THEN StripZeros(m \div 10, x + 1)
    ELSE <<m, x>>

RECURSIVE NumDigits(_)
NumDigits(n) == IF n < 10 THEN 1 ELSE 1 + NumDigits(n \div 10)

RECURSIVE Pow10(_)
Pow10(n) == IF n = 0 THEN 1 ELSE 10 * Pow10(n - 1)

Abs(n) == IF n < 0 THEN -n ELSE n

\* The exponent of c = <<mantissa, exponent>> in scientific notation.
Magnitude(c) == c[2] + NumDigits(Abs(c[1])) - 1
\* The first nine significant digits of m.
LeadingDigits(m) == Abs(m) * Pow10(9 - NumDigits(Abs(m)))

\* The value of the canonical pair c = <<mantissa, exponent>>.
Canonical(c) ==
    IF c[1] = 0 THEN [k |-> "num", m |-> 0, x |-> 0, s |-> <<>>]
    ELSE IF Magnitude(c) > 308
            \/ (Magnitude(c) = 308 /\ LeadingDigits(c[1]) >= 179769314)
        THEN Infinity(IF c[1] < 0 THEN -1 ELSE 1)
    ELSE IF Magnitude(c) < -324 THEN [k |-> "num", m |-> 0, x |-> 0, s |-> <<>>]
    ELSE [k |-> "num", m |-> c[1], x |-> c[2], s |-> <<>>]

\* The double nearest m * 10^x: +-Infinity above the largest double
\* (1.7976931348623157e308), 0 below the smallest (5e-324), otherwise the
\* decimal itself in canonical form.  m has at most 9 digits.
Num(m, x) == Canonical(StripZeros(m, x))

\* JavaScript truthiness: null, undefined, "", 0 and NaN are falsy.
Truthy(v) ==
    CASE v.k = "null" -> FALSE
      [] v.k = "undefined" -> FALSE
      [] v.k = "nan" -> FALSE
      [] v.k = "str" -> v.s # <<>>
      [] v.k = "num" -> v.m # 0
      [] v.k = "bool" -> v.m = 1
      [] OTHER -> TRUE

\* a || b
OrElse(a, b) == IF Truthy(a) THEN a ELSE b

\* --------------------------------------------------------------- strings

RECURSIVE SelectChars(_, _)
\* The characters of s that are not in drop: s.replace(/[drop]/g, "").
SelectChars(s, drop) ==
    IF s = <<>> THEN <<>>
    ELSE IF Head(s) \in drop THEN SelectChars(Tail(s), drop)
    ELSE <<Head(s)>> \o SelectChars(Tail(s), drop)

RECURSIVE TrimLeft(_)
TrimLeft(s) ==
    IF s # <<>> /\ Head(s) \in WhiteSpace THEN TrimLeft(Tail(s)) ELSE s

RECURSIVE TrimRight(_)
TrimRight(s) ==
    IF s # <<>> /\ s[Len(s)] \in WhiteSpace
    THEN TrimRight(SubSeq(s, 1, Len(s) - 1)) ELSE s

\* String.prototype.trim
Trim(s) == TrimRight(TrimLeft(s))

\* s.replace(/%$/, ""): one percent sign at the end of the string is removed.
StripTrailingPercent(s) ==
    IF s # <<>> /\ s[Len(s)] = "%" THEN SubSeq(s, 1, Len(s) - 1) ELSE s

RECURSIVE SpanEnd(_, _, _)
\* The first position at or after p whose character is not in class
\* (Len(s) + 1 when the run reaches the end).
SpanEnd(s, p, class) ==
    IF p <= Len(s) /\ s[p] \in class THEN SpanEnd(s, p + 1, class) ELSE p

RECURSIVE DigitsToInt(_, _, _)
\* The value of the decimal digits s[p..q-1] (0 when there are none).
DigitsToInt(s, p, q) ==
    IF p >= q THEN 0
    ELSE DigitsToInt(s, p, q - 1) * 10 + DigitVal(s[q - 1])

IsPrefixAt(s, p, lit) ==
    /\ p + Len(lit) - 1 <= Len(s)
    /\ \A i \in 1..Len(lit) : s[p + i - 1] = lit[i]

InfinityLit == <<"I","n","f","i","n","i","t","y">>

\* The exponent part at position e of s, where an "e" or "E" may stand: its
\* value, 0 when no digit follows the letter and its sign.
ExponentValue(s, first, last, negative) ==
    IF last = first THEN 0
    ELSE IF negative THEN -DigitsToInt(s, first, last)
    ELSE DigitsToInt(s, first, last)

ExponentDigits(s, first, negative) ==
    ExponentValue(s, first, SpanEnd(s, first, Digits), negative)

ExponentSigned(s, e) == e + 1 <= Len(s) /\ s[e + 1] \in {"+", "-"}

ExponentPart(s, e) ==
    IF e > Len(s) \/ s[e] \notin {"e", "E"} THEN 0
    ELSE ExponentDigits(s, IF ExponentSigned(s, e) THEN e + 2 ELSE e + 1,
                        ExponentSigned(s, e) /\ s[e + 1] = "-")

\* The digits s[p..intEnd-1] before and s[intEnd+1..fracEnd-1] after the dot
\* (fracEnd = intEnd: no dot).  "5." is a literal, "." alone is none.
FractionLength(intEnd, fracEnd) ==
    IF fracEnd = intEnd THEN 0 ELSE fracEnd - intEnd - 1

Mantissa(s, p, intEnd, fracEnd) ==
    DigitsToInt(s, p, intEnd) * Pow10(FractionLength(intEnd, fracEnd))
    + DigitsToInt(s, intEnd + 1, fracEnd)

ParseDecimal(s, sign, p, intEnd, fracEnd) ==
    IF intEnd = p /\ fracEnd <= intEnd + 1 THEN NaN
    ELSE Num(sign * Mantissa(s, p, intEnd, fracEnd),
             ExponentPart(s, fracEnd) - FractionLength(intEnd, fracEnd))

ParseFraction(s, sign, p, intEnd) ==
    ParseDecimal(s, sign, p, intEnd,
                 IF intEnd <= Len(s) /\ s[intEnd] = "."
                 THEN SpanEnd(s, intEnd + 1, Digits) ELSE intEnd)

ParseUnsigned(s, sign, p) ==
    IF IsPrefixAt(s, p, InfinityLit) THEN Infinity(sign)
    ELSE ParseFraction(s, sign, p, SpanEnd(s, p, Digits))

ParseSign(s) ==
    ParseUnsigned(s, IF s # <<>> /\ s[1] = "-" THEN -1 ELSE 1,
                  IF s # <<>> /\ s[1] \in {"+", "-"} THEN 2 ELSE 1)

\* The global parseFloat: leading white space is skipped, then the longest
\* prefix that is a StrDecimalLiteral is converted; NaN when there is none.
\*   StrDecimalLiteral ::= [+-]? ( Infinity | digits [. digits?] [exp]
\*                                 | . digits [exp] )
\*   exp ::= [eE] [+-]? digits
parseFloat(str) == ParseSign(TrimLeft(str))

isNaN(v) == v.k = "nan"

CurrencyAndSeparators == {Rupee, ","} \cup WhiteSpace

\* isNaN(num) ? null : num
NumberOrNull(num) == IF isNaN(num) THEN Null ELSE num

\* parseIndianNumber(str): the rupee signs, commas and white space are
\* removed, the rest is trimmed, one "%" at its end is removed, and
\* parseFloat converts what is left.
parseIndianNumber(str) ==
    IF ~Truthy(str) \/ str.k # "str" THEN Null
    ELSE
        NumberOrNull(parseFloat(StripTrailingPercent(
            Trim(SelectChars(str.s, CurrencyAndSeparators)))))

\* --------------------------------------------------- regular expressions

(***************************************************************************)
(* A regular expression is a sequence of items, matched by backtracking in *)
(* the priority order of ECMAScript: an item consumes input, the rest of   *)
(* the sequence is the continuation, and the first alternative that lets   *)
(* the whole sequence match wins.                                          *)
(*   In(cs)      a character of the set cs        [..] \d \s \w            *)
(*   NotIn(cs)   a character not in cs            [^..], and [\s\S]        *)
(*   Lit(str)    the characters of str, LitI(str) under the i flag         *)
(*   Rep(b,lo,hi,greedy)  b repeated lo..hi times (hi = -1: unbounded)     *)
(*   Grp(n, b)   capturing group n                                         *)
(*   Alt(a, b)   a|b                                                       *)
(*   EndOfLine   $ under the m flag                                        *)
(* No repeated body of the source's patterns can match the empty string.   *)
(***************************************************************************)
In(cs) == [t |-> "in", cs |-> cs]
NotIn(cs) == [t |-> "notin", cs |-> cs]
Rep(b, lo, hi, greedy) == [t |-> "rep", b |-> b, lo |-> lo, hi |-> hi, greedy |-> greedy]
Grp(n, b) == [t |-> "grp", n |-> n, b |-> b]
Alt(a, b) == [t |-> "alt", a |-> a, b |-> b]
EndOfLine == [t |-> "eol"]
GrpClose(n, start) == [t |-> "close", n |-> n, start |-> start]

Star(b) == Rep(b, 0, -1, TRUE)       \* b*
Plus(b) == Rep(b, 1, -1, TRUE)       \* b+
Opt(b) == Rep(b, 0, 1, TRUE)         \* b?
LazyStar(b) == Rep(b, 0, -1, FALSE)  \* b*?

\* The other case of a letter (the character itself when it is no letter).
OtherCase(c) ==
    IF \E i \in 1..26 : LowerCase[i] = c
    THEN UpperCase[CHOOSE i \in 1..26 : LowerCase[i] = c]
    ELSE IF \E i \in 1..26 : UpperCase[i] = c
    THEN LowerCase[CHOOSE i \in 1..26 : UpperCase[i] = c]
    ELSE c

\* A literal: for each of its characters the set of characters matching it.
Lit(str) == <<[t |-> "lit", cs |-> [i \in 1..Len(str) |-> {str[i]}]]>>
\* A literal under the i flag.
LitI(str) == <<[t |-> "lit", cs |-> [i \in 1..Len(str) |-> {str[i], OtherCase(str[i])}]]>>

AnyChar == NotIn({})                 \* [\s\S]
NotNewline == NotIn({"\n"})          \* [^\n]
Ws == In(WhiteSpace)                 \* \s
Digit == In(Digits)                  \* \d
Word == In(WordChars)                \* \w
LineBreaks == In({"\n", "\r"})       \* [\n\r]

\* The captures of a match: for each group <<start, end>>, the group's text
\* being s[start..end-1]; <<0, 0>> for a group that did not take part.
MaxGroups == 2
NoCaps == [n \in 1..MaxGroups |-> <<0, 0>>]
NoMatch == [ok |-> FALSE, start |-> 0, end |-> 0, caps |-> NoCaps]

LineTerminators == {"\n", "\r"}

\* Whether the single-character item it (In or NotIn) accepts c.
Accepts(it, c) == IF it.t = "in" THEN c \in it.cs ELSE c \notin it.cs

\* A repetition whose body is one character class.
IsRun(it) == Len(it.b) = 1 /\ it.b[1].t \in {"in", "notin"}

\* The end of the longest run of characters the class accepts from pos on,
\* cut to hi characters when hi >= 0.
RunEnd(it, s, pos) ==
    LET stops == {q \in pos..Len(s) : ~Accepts(it.b[1], s[q])}
        full == IF stops = {} THEN Len(s) + 1
                ELSE CHOOSE q \in stops : \A r \in stops : q <= r
    IN  IF it.hi >= 0 /\ pos + it.hi < full THEN pos + it.hi ELSE full

RECURSIVE MatchSeq(_, _, _, _)
\* The first way, in priority order, for items to match s from pos on.
MatchSeq(items, s, pos, caps) ==
    IF Len(items) = 0
    THEN [ok |-> TRUE, start |-> 0, end |-> pos, caps |-> caps]
    ELSE
        LET it == Head(items)
            rest == Tail(items)
        IN  CASE it.t \in {"in", "notin"} ->
                    IF pos <= Len(s) /\ Accepts(it, s[pos])
                    THEN MatchSeq(rest, s, pos + 1, caps) ELSE NoMatch
              [] it.t = "lit" ->
                    IF /\ pos + Len(it.cs) - 1 <= Len(s)
                       /\ \A i \in 1..Len(it.cs) : s[pos + i - 1] \in it.cs[i]
                    THEN MatchSeq(rest, s, pos + Len(it.cs), caps) ELSE NoMatch
              [] it.t = "eol" ->
                    IF pos = Len(s) + 1 \/ s[pos] \in LineTerminators
                    THEN MatchSeq(rest, s, pos, caps) ELSE NoMatch
              [] it.t = "grp" ->
                    MatchSeq(it.b \o <<GrpClose(it.n, pos)>> \o rest, s, pos, caps)
              [] it.t = "close" ->
                    MatchSeq(rest, s, pos, [caps EXCEPT ![it.n] = <<it.start, pos>>])
              [] it.t = "alt" ->
                    LET first == MatchSeq(it.a \o rest, s, pos, caps)
                    IN  IF first.ok THEN first
                        ELSE MatchSeq(it.b \o rest, s, pos, caps)
              [] it.t = "rep" /\ IsRun(it) ->
                    \* the class is taken k - pos times, for the largest k
                    \* (the smallest when lazy) that lets the rest match
                    LET tries == {<<k, MatchSeq(rest, s, k, caps)>> :
                                    k \in (pos + it.lo)..RunEnd(it, s, pos)}
                        good == {r \in tries : r[2].ok}
                    IN  IF good = {} THEN NoMatch
                        ELSE IF it.greedy
                        THEN (CHOOSE r \in good : \A o \in good : o[1] <= r[1])[2]
                        ELSE (CHOOSE r \in good : \A o \in good : o[1] >= r[1])[2]
              [] it.t = "rep" /\ ~IsRun(it) ->
                    LET again == [it EXCEPT
                                    !.lo = IF it.lo > 0 THEN it.lo - 1 ELSE 0,
                                    !.hi = IF it.hi > 0 THEN it.hi - 1 ELSE it.hi]
                        more == IF it.hi = 0 THEN NoMatch
                                ELSE MatchSeq(it.b \o <<again>> \o rest, s, pos, caps)
                        stop == IF it.lo > 0 THEN NoMatch
                                ELSE MatchSeq(rest, s, pos, caps)
                    IN  IF it.greedy
                        THEN (IF more.ok THEN more ELSE stop)
                        ELSE (IF stop.ok THEN stop ELSE more)

\* The matches of re in s, by start position.
MatchesFrom(re, s) ==
    {r \in {[MatchSeq(re, s, p, NoCaps) EXCEPT !.start = p] : p \in 1..(Len(s) + 1)} : r.ok}

Leftmost(all) ==
    IF all = {} THEN NoMatch
    ELSE CHOOSE r \in all : \A o \in all : r.start <= o.start

\* String.prototype.match with a pattern that has no g flag: the leftmost
\* match, or NoMatch (null).
Match(s, re) == Leftmost(MatchesFrom(re, s))

\* match[0]
Whole(s, m) == SubSeq(s, m.start, m.end - 1)
\* match[n]: a string, or undefined for a group that did not take part
Group(s, m, n) ==
    IF m.caps[n] = <<0, 0>> THEN Undefined
    ELSE Str(SubSeq(s, m.caps[n][1], m.caps[n][2] - 1))

\* match && match[1] ? parseIndianNumber(match[1]) : null, for match[1] or
\* undefined when there is no match
NumberOfGroup(g) == IF ~Truthy(g) THEN Null ELSE parseIndianNumber(g)

\* extractNumber(text, pattern)
extractNumber(text, pattern) == NumberOfGroup(Group(text, Match(text, pattern), 1))

\* g?.trim()
TrimOf(g) == IF g.k = "str" THEN Str(Trim(g.s)) ELSE Undefined

\* extractString(text, pattern): match?.[1]?.trim() || null
extractString(text, pattern) ==
    OrElse(TrimOf(Group(text, Match(text, pattern), 1)), Null)

\* ------------------------------------------------------------- patterns

\* \s*  \s+  [\n\r]*  ₹?
WsStar == Star(<<Ws>>)
WsPlus == Plus(<<Ws>>)
BreakStar == Star(<<LineBreaks>>)
OptRupee == Opt(<<In({Rupee})>>)
\* [\d,]+  [\d.]+  [\d,]+(?:\.\d+)?
DigitsCommas == <<Plus(<<In(Digits \cup {","})>>)>>
DigitsDots == <<Plus(<<In(Digits \cup {"."})>>)>>
GroupedDecimal == DigitsCommas \o <<Opt(<<In({"."}), Plus(<<Digit>>)>>)>>
\* (\d+\s+\w+)
DateFragment == Grp(1, <<Plus(<<Digit>>), WsPlus, Plus(<<Word>>)>>)

\* /₹\s*([\d,]+(?:\.\d+)?)/
ReCmp == <<In({Rupee}), WsStar, Grp(1, GroupedDecimal)>>

\* /High\s*\/\s*Low\s*[\n\r]*₹?\s*([\d,]+)\s*\/\s*([\d,]+)/i
ReHighLow ==
    LitI(<<"H","i","g","h">>) \o <<WsStar, In({"/"}), WsStar>> \o LitI(<<"L","o","w">>)
    \o <<WsStar, BreakStar, OptRupee, WsStar, Grp(1, DigitsCommas),
         WsStar, In({"/"}), WsStar, Grp(2, DigitsCommas)>>

\* /(?:Stock\s+)?P\/E\s*[\n\r]*([\d.]+)/i
RePeRatio ==
    <<Opt(LitI(<<"S","t","o","c","k">>) \o <<WsPlus>>)>> \o LitI(<<"P","/","E">>)
    \o <<WsStar, BreakStar, Grp(1, DigitsDots)>>

\* /Book\s+Value\s*[\n\r]*₹?\s*([\d,]+(?:\.\d+)?)/i
ReBookValue ==
    LitI(<<"B","o","o","k">>) \o <<WsPlus>> \o LitI(<<"V","a","l","u","e">>)
    \o <<WsStar, BreakStar, OptRupee, WsStar, Grp(1, GroupedDecimal)>>

\* /Face\s+Value\s*[\n\r]*₹?\s*([\d.]+)/i
ReFaceValue ==
    LitI(<<"F","a","c","e">>) \o <<WsPlus>> \o LitI(<<"V","a","l","u","e">>)
    \o <<WsStar, BreakStar, OptRupee, WsStar, Grp(1, DigitsDots)>>

\* /trading\s+at\s+([\d.]+)\s+times\s+its\s+book\s+value/i
ReExplicitPB ==
    LitI(<<"t","r","a","d","i","n","g">>) \o <<WsPlus>> \o LitI(<<"a","t">>) \o <<WsPlus, Grp(1, DigitsDots), WsPlus>>
    \o LitI(<<"t","i","m","e","s">>) \o <<WsPlus>> \o LitI(<<"i","t","s">>) \o <<WsPlus>>
    \o LitI(<<"b","o","o","k">>) \o <<WsPlus>> \o LitI(<<"v","a","l","u","e">>)

\* /Market\s+Cap\s*[\n\r]*₹?\s*([\d,]+(?:\.\d+)?\s*(?:Cr\.?)?)/i
ReMarketCap ==
    LitI(<<"M","a","r","k","e","t">>) \o <<WsPlus>> \o LitI(<<"C","a","p">>)
    \o <<WsStar, BreakStar, OptRupee, WsStar,
         Grp(1, GroupedDecimal \o <<WsStar, Opt(LitI(<<"C","r">>) \o <<Opt(<<In({"."})>>)>>)>>)>>

\* /Mar\s+Cap\s+Rs\.?Cr\.?\s*[\n\r]*([\d,]+(?:\.\d+)?)/i
ReMarCapRsCr ==
    LitI(<<"M","a","r">>) \o <<WsPlus>> \o LitI(<<"C","a","p">>) \o <<WsPlus>> \o LitI(<<"R","s">>)
    \o <<Opt(<<In({"."})>>)>> \o LitI(<<"C","r">>)
    \o <<Opt(<<In({"."})>>), WsStar, BreakStar, Grp(1, GroupedDecimal)>>

\* EPS\s+in\s+Rs
EpsInRs == LitI(<<"E","P","S">>) \o <<WsPlus>> \o LitI(<<"i","n">>) \o <<WsPlus>> \o LitI(<<"R","s">>)
\* ([\d.\s\t]+)
EpsRow == Grp(1, <<Plus(<<In(Digits \cup {"."} \cup WhiteSpace)>>)>>)

\* /Profit\s+&\s+Loss[\s\S]*?TTM[\s\S]*?EPS\s+in\s+Rs\s+([\d.\s\t]+)/i
RePlSection ==
    LitI(<<"P","r","o","f","i","t">>) \o <<WsPlus, In({"&"}), WsPlus>> \o LitI(<<"L","o","s","s">>)
    \o <<LazyStar(<<AnyChar>>)>> \o LitI(<<"T","T","M">>) \o <<LazyStar(<<AnyChar>>)>>
    \o EpsInRs \o <<WsPlus, EpsRow>>

\* /Mar\s+2025\s+TTM[\s\S]*?EPS\s+in\s+Rs[\s\S]*?([\d.]+)\s*$/m
\* (no i flag: the letters match in their own case only)
ReTtmColumn ==
    Lit(<<"M","a","r">>) \o <<WsPlus>> \o Lit(<<"2","0","2","5">>) \o <<WsPlus>> \o Lit(<<"T","T","M">>)
    \o <<LazyStar(<<AnyChar>>)>>
    \o Lit(<<"E","P","S">>) \o <<WsPlus>> \o Lit(<<"i","n">>) \o <<WsPlus>> \o Lit(<<"R","s">>)
    \o <<LazyStar(<<AnyChar>>), Grp(1, DigitsDots), WsStar, EndOfLine>>

\* /EPS\s+in\s+Rs\s+([\d.\s\t]+)/i
ReEpsRow == EpsInRs \o <<WsPlus, EpsRow>>

\* /ROE\s*%?\s*[\n\r]*([\d.]+)\s*%?/i
ReRoe ==
    LitI(<<"R","O","E">>)
    \o <<WsStar, Opt(<<In({"%"})>>), WsStar, BreakStar, Grp(1, DigitsDots),
         WsStar, Opt(<<In({"%"})>>)>>

\* /ROCE\s*%?\s*[\n\r]*([\d.]+)\s*%?/i
ReRoce ==
    LitI(<<"R","O","C","E">>)
    \o <<WsStar, Opt(<<In({"%"})>>), WsStar, BreakStar, Grp(1, DigitsDots),
         WsStar, Opt(<<In({"%"})>>)>>

\* Compounded\s+<what>\s+Growth[\s\S]*?TTM
CompoundedGrowthTtm(what) ==
    LitI(<<"C","o","m","p","o","u","n","d","e","d">>) \o <<WsPlus>> \o LitI(what) \o <<WsPlus>> \o LitI(<<"G","r","o","w","t","h">>)
    \o <<LazyStar(<<AnyChar>>)>> \o LitI(<<"T","T","M">>)

\* /Compounded\s+Sales\s+Growth[\s\S]*?TTM[:\s]*([\d.]+%)/i, and for Profit
ReGrowthTtm(what) ==
    CompoundedGrowthTtm(what)
    \o <<Star(<<In({":"} \cup WhiteSpace)>>), Grp(1, DigitsDots \o <<In({"%"})>>)>>

\* /Compounded\s+Sales\s+Growth[\s\S]*?TTM[\s\S]*?([\d.]+)\s*%/i, and for Profit
ReGrowthTtmLoose(what) ==
    CompoundedGrowthTtm(what)
    \o <<LazyStar(<<AnyChar>>), Grp(1, DigitsDots), WsStar, In({"%"})>>

\* /Financing\s+Margin\s+%\s+([\d%\s\t-]+)/i
ReFinancingMargin ==
    LitI(<<"F","i","n","a","n","c","i","n","g">>) \o <<WsPlus>> \o LitI(<<"M","a","r","g","i","n">>)
    \o <<WsPlus, In({"%"}), WsPlus,
         Grp(1, <<Plus(<<In(Digits \cup {"%", "-"} \cup WhiteSpace)>>)>>)>>

\* /<label>\s*\+?\s+([\d.%\s\t]+)/i, <label> being Promoters?, FIIs?, DIIs?
\* or Public
ReHolder(label) ==
    label
    \o <<WsStar, Opt(<<In({"+"})>>), WsPlus,
         Grp(1, <<Plus(<<In(Digits \cup {".", "%"} \cup WhiteSpace)>>)>>)>>
LabelPromoter == LitI(<<"P","r","o","m","o","t","e","r">>) \o <<Opt(LitI(<<"s">>))>>
LabelFii == LitI(<<"F","I","I">>) \o <<Opt(LitI(<<"s">>))>>
LabelDii == LitI(<<"D","I","I">>) \o <<Opt(LitI(<<"s">>))>>
LabelPublic == LitI(<<"P","u","b","l","i","c">>)

\* /Upcoming\s+result\s+date[:\s]*([\d]+\s+\w+\s+\d{4})/i
ReResultDate ==
    LitI(<<"U","p","c","o","m","i","n","g">>) \o <<WsPlus>> \o LitI(<<"r","e","s","u","l","t">>) \o <<WsPlus>> \o LitI(<<"d","a","t","e">>)
    \o <<Star(<<In({":"} \cup WhiteSpace)>>),
         Grp(1, <<Plus(<<Digit>>), WsPlus, Plus(<<Word>>), WsPlus,
                  Rep(<<Digit>>, 4, 4, TRUE)>>)>>

\* ESOP\s*\/?\s*ESPS
EsopEsps == LitI(<<"E","S","O","P">>) \o <<WsStar, Opt(<<In({"/"})>>), WsStar>> \o LitI(<<"E","S","P","S">>)
\* [^\n]* when greedy, [^\n]*? otherwise
RestOfLine(greedy) == Rep(<<NotNewline>>, 0, -1, greedy)

\* screenerParser.js: /ESOP\s*\/?\s*ESPS[^\n]*(\d+\s+\w+)/i
\* format.js: /(?:Allotment\s+of\s+)?ESOP\s*\/?\s*ESPS[^\n]*?(\d+\s+\w+)/i
ReEsop(web) ==
    IF web
    THEN <<Opt(LitI(<<"A","l","l","o","t","m","e","n","t">>) \o <<WsPlus>> \o LitI(<<"o","f">>) \o <<WsPlus>>)>>
         \o EsopEsps \o <<RestOfLine(FALSE), DateFragment>>
    ELSE EsopEsps \o <<RestOfLine(TRUE), DateFragment>>

\* screenerParser.js: /<Keyword>[^\n]*(\d+\s+\w+)/i
\* format.js: /<Keyword>[^\n]*?(\d+\s+\w+)/i
ReAction(keyword, web) == LitI(keyword) \o <<RestOfLine(~web), DateFragment>>

\* screenerParser.js: /Board\s+Meeting[^\n]*\n[^\n]*([\w\s\d,<en dash>-]+)/i
\* format.js: /Board\s+Meeting[^\n]*(?:Intimation|Approving)[^\n]*/i
ReBoardMeeting(web) ==
    LitI(<<"B","o","a","r","d">>) \o <<WsPlus>> \o LitI(<<"M","e","e","t","i","n","g">>)
    \o (IF web
        THEN <<RestOfLine(TRUE), Alt(LitI(<<"I","n","t","i","m","a","t","i","o","n">>), LitI(<<"A","p","p","r","o","v","i","n","g">>)),
               RestOfLine(TRUE)>>
        ELSE <<RestOfLine(TRUE), In({"\n"}), RestOfLine(TRUE),
               Grp(1, <<Plus(<<In(WordChars \cup WhiteSpace \cup {",", EnDash, "-"})>>)>>)>>)

\* format.js: /(?:Intimation|Announcement)\s+Under\s+(?:SEBI|Regulation)[^\n]*/i
ReLodr ==
    <<Alt(LitI(<<"I","n","t","i","m","a","t","i","o","n">>), LitI(<<"A","n","n","o","u","n","c","e","m","e","n","t">>)), WsPlus>> \o LitI(<<"U","n","d","e","r">>)
    \o <<WsPlus, Alt(LitI(<<"S","E","B","I">>), LitI(<<"R","e","g","u","l","a","t","i","o","n">>)), RestOfLine(TRUE)>>

\* /RBI\s+approved[^\n]*/i
ReRbi == LitI(<<"R","B","I">>) \o <<WsPlus>> \o LitI(<<"a","p","p","r","o","v","e","d">>) \o <<RestOfLine(TRUE)>>

\* ------------------------------------------------------- string methods

SetMax(S) == CHOOSE a \in S : \A b \in S : b <= a
SetMin(S) == CHOOSE a \in S : \A b \in S : a <= b

\* s.includes(c), c one character
Includes(s, c) == \E i \in 1..Len(s) : s[i] = c

\* /^\d/.test(s)
StartsWithDigit(s) == Len(s) > 0 /\ s[1] \in Digits

\* s.substring(0, n)
Substring0(s, n) == SubSeq(s, 1, IF Len(s) < n THEN Len(s) ELSE n)

\* s.replace("%", ""): the first percent sign is removed.
RemoveFirstPercent(s) ==
    IF Includes(s, "%")
    THEN LET i == SetMin({j \in 1..Len(s) : s[j] = "%"})
         IN  SubSeq(s, 1, i - 1) \o SubSeq(s, i + 1, Len(s))
    ELSE s

\* s.split(/[\s\t]+/): the pieces of s between its runs of white space; a
\* run at either end leaves an empty piece there, and "" gives [""].
SplitWs(s) ==
    LET starts == {i \in 1..Len(s) :
                     s[i] \notin WhiteSpace /\ (i = 1 \/ s[i - 1] \in WhiteSpace)}
        nth(j) == CHOOSE i \in starts : Cardinality({o \in starts : o < i}) = j - 1
        last(i) == SetMin({q \in i..Len(s) : q = Len(s) \/ s[q + 1] \in WhiteSpace})
        pieces == [j \in 1..Cardinality(starts) |-> SubSeq(s, nth(j), last(nth(j)))]
    IN  IF Len(s) = 0 THEN << <<>> >>
        ELSE (IF s[1] \in WhiteSpace THEN << <<>> >> ELSE <<>>)
             \o pieces
             \o (IF s[Len(s)] \in WhiteSpace THEN << <<>> >> ELSE <<>>)

RECURSIVE IntToChars(_)
\* The decimal digits of a natural number.
IntToChars(n) ==
    IF n < 10 THEN <<DigitChar(n)>>
    ELSE IntToChars(n \div 10) \o <<DigitChar(n % 10)>>

\* The digits of a natural number in the Indian grouping: the last three
\* digits, then groups of two.
GroupIndian(digits) ==
    LET n == Len(digits)
        piece(i) == IF i < n /\ n - i >= 3 /\ (n - i - 3) % 2 = 0
                    THEN <<digits[i], ",">> ELSE <<digits[i]>>
        RECURSIVE build(_)
        build(i) == IF i > n THEN <<>> ELSE piece(i) \o build(i + 1)
    IN  build(1)

\* Number.prototype.toLocaleString('en-IN') of a finite number v >= 0: Indian
\* grouping, at most three fraction digits (rounded half up), none trailing.
ToLocaleStringEnIN(v) ==
    LET thousandths ==
            IF v.x >= -3 THEN v.m * Pow10(v.x + 3)
            ELSE (v.m + 5 * Pow10(-v.x - 4)) \div Pow10(-v.x - 3)
        whole == thousandths \div 1000
        frac == StripZeros(thousandths % 1000, -3)
        fracDigits == IntToChars(frac[1])
        pad == [i \in 1..(-frac[2] - Len(fracDigits)) |-> "0"]
    IN  GroupIndian(IntToChars(whole))
        \o (IF frac[1] = 0 THEN <<>> ELSE <<".">> \o pad \o fracDigits)

\* Math.round(a / b * 100) / 100 for finite a and b, b > 0: Math.round
\* rounds to the nearest integer, a half towards +Infinity.
RoundRatio2(a, b) ==
    LET e == a.x + 2 - b.x
        n == IF e >= 0 THEN a.m * Pow10(e) ELSE a.m
        d == IF e >= 0 THEN b.m ELSE b.m * Pow10(-e)
    IN  Num((2 * n + d) \div (2 * d), -2)

\* Math.round((a - b) * 100) / 100 for finite a and b
RoundDiff2(a, b) ==
    LET lo == IF a.x < b.x THEN a.x ELSE b.x
        diff == a.m * Pow10(a.x - lo) - b.m * Pow10(b.x - lo)
        e == lo + 2
        n == IF e >= 0 THEN diff * Pow10(e) ELSE diff
        d == IF e >= 0 THEN 1 ELSE Pow10(-e)
    IN  Num((2 * n + d) \div (2 * d), -2)

\* v > 0
GreaterThanZero(v) == (v.k = "num" /\ v.m > 0) \/ (v.k = "inf" /\ v.m > 0)

NA == Str(<<"N","/","A">>)

\* ----------------------------------------------------- section extractors
\* web = FALSE: src/src/screenerParser.js, the parser of the command line.
\* web = TRUE: the parser of the browser application (src/src/format.js).

\* extractPriceVolume(text)
\* The record out of the price and the match of the "High / Low" row.
PriceVolumeRecord(text, web, cmp, highLowMatch) ==
    LET g1 == Group(text, highLowMatch, 1)
        g2 == Group(text, highLowMatch, 2)
        high == IF highLowMatch.ok THEN parseIndianNumber(g1) ELSE Null
        low == IF highLowMatch.ok THEN parseIndianNumber(g2) ELSE Null
        highLow == IF ~highLowMatch.ok THEN Null
                   ELSE IF web THEN Str(<<Rupee>> \o g1.s \o <<" ","/"," ">> \o <<Rupee>> \o g2.s)
                   ELSE Str(g1.s \o <<" ","/"," ">> \o g2.s)
    IN  IF web
        THEN [cmp |-> cmp, week52HighLow |-> highLow,
              week52High |-> high, week52Low |-> low]
        ELSE [cmp |-> cmp, dayHighLow |-> highLow, week52HighLow |-> highLow,
              week52High |-> high, week52Low |-> low,
              volumeToday |-> NA, avgVolume10d |-> NA]

extractPriceVolume(text, web) ==
    PriceVolumeRecord(text, web, extractNumber(text, ReCmp), Match(text, ReHighLow))

\* The price-to-book ratio derived from the price and the book value:
\* if (cmp && bookValue && bookValue > 0) pbRatio = round(cmp / bookValue)
DerivedPB(cmp, bookValue) ==
    IF Truthy(cmp) /\ Truthy(bookValue) /\ GreaterThanZero(bookValue)
    THEN RoundRatio2(cmp, bookValue) ELSE Null

\* The explicit statement "trading at N times its book value" overrides:
\* if (explicitPB) pbRatio = explicitPB
OverridePB(pbRatio, explicitPB) ==
    IF Truthy(explicitPB) THEN explicitPB ELSE pbRatio

\* A record that gives the stock's own P/E as that of the industry.
ValuationRecordWithIndustry(web, peRatio, bookValue, faceValue, cmp, explicitPB) ==
    IF web
    THEN [peRatio |-> peRatio,
          pbRatio |-> OverridePB(DerivedPB(cmp, bookValue), explicitPB),
          bookValue |-> bookValue, faceValue |-> faceValue]
    ELSE [peRatio |-> peRatio, industryPE |-> peRatio,
          pbRatio |-> OverridePB(DerivedPB(cmp, bookValue), explicitPB),
          bookValue |-> bookValue, faceValue |-> faceValue]

ValuationRecord(web, peRatio, bookValue, faceValue, cmp, explicitPB) ==
    IF web
    THEN [peRatio |-> peRatio,
          pbRatio |-> OverridePB(DerivedPB(cmp, bookValue), explicitPB),
          bookValue |-> bookValue, faceValue |-> faceValue]
    ELSE [peRatio |-> peRatio, industryPE |-> NA,
          pbRatio |-> OverridePB(DerivedPB(cmp, bookValue), explicitPB),
          bookValue |-> bookValue, faceValue |-> faceValue]

\* extractValuation(text)
extractValuation(text, web) ==
    ValuationRecord(web, extractNumber(text, RePeRatio),
                    extractNumber(text, ReBookValue),
                    extractNumber(text, ReFaceValue),
                    extractNumber(text, ReCmp),
                    extractNumber(text, ReExplicitPB))

\* An empty row read as zero.
LastNumberOrZero(values) ==
    IF Len(values) > 0 THEN parseIndianNumber(Str(values[Len(values)]))
    ELSE Num(0, 0)

\* The last element of a row of values as a number, null for an empty row.
LastNumber(values) ==
    IF Len(values) > 0 THEN parseIndianNumber(Str(values[Len(values)])) ELSE Null

\* row.trim().split(/[\s\t]+/).filter(v => /^\d/.test(v))
EpsValues(row) == SelectSeq(SplitWs(Trim(row)), StartsWithDigit)

\* The market capitalisation: the "Market Cap" figure, else the figure of
\* "Mar Cap Rs.Cr." in the Indian grouping of digits.
MarketCap(web, direct, mcNum) ==
    IF ~Truthy(direct)
    THEN IF Truthy(mcNum)
         THEN Str((IF web THEN <<Rupee>> ELSE <<>>)
                  \o ToLocaleStringEnIN(mcNum) \o <<" ","C","r">>)
         ELSE direct
    ELSE IF web /\ direct.s[1] # Rupee THEN Str(<<Rupee>> \o direct.s)
    ELSE direct

\* The last value of the "EPS in Rs" row of the Profit & Loss section.
StructuralEps(text, plSection) ==
    IF plSection.ok THEN LastNumber(EpsValues(Group(text, plSection, 1).s))
    ELSE Null

\* The last numeric value of a row of values, else otherwise.
LastNumberOr(values, otherwise) ==
    IF Len(values) > 0 THEN LastNumber(values) ELSE otherwise

\* What stands for the earnings per share when the Profit & Loss section
\* gives none: screenerParser.js takes the figure after a "TTM" column
\* heading, format.js the last value of any "EPS in Rs" row.
FallbackEps(text, web, ttmMatch, epsMatch, structural) ==
    IF web
    THEN IF epsMatch.ok
         THEN LastNumberOr(EpsValues(Group(text, epsMatch, 1).s), structural)
         ELSE structural
    ELSE IF ttmMatch.ok THEN parseIndianNumber(Group(text, ttmMatch, 1))
         ELSE structural

EpsTtm(text, web, structural) ==
    IF ~Truthy(structural)
    THEN FallbackEps(text, web, Match(text, ReTtmColumn), Match(text, ReEpsRow),
                     structural)
    ELSE structural

FinancialStrengthRecord(web, marketCap, epsTTM, roe, roce) ==
    IF web
    THEN [marketCap |-> OrElse(marketCap, Null), epsTTM |-> epsTTM,
          roe |-> roe, roce |-> roce]
    ELSE [marketCap |-> OrElse(marketCap, NA), debtToEquity |-> NA,
          epsTTM |-> epsTTM, roe |-> roe, roce |-> roce]

\* extractFinancialStrength(text)
extractFinancialStrength(text, web) ==
    FinancialStrengthRecord(
        web,
        MarketCap(web, extractString(text, ReMarketCap),
                  extractNumber(text, ReMarCapRsCr)),
        EpsTtm(text, web, StructuralEps(text, Match(text, RePlSection))),
        extractNumber(text, ReRoe),
        extractNumber(text, ReRoce))

\* value.includes("%") ? value : `${value}%`
WithPercent(value) == IF Includes(value, "%") THEN value ELSE value \o <<"%">>

\* Whether parseFloat accepts the value once its first "%" is removed.
IsNumeric(value) ==
    /\ RemoveFirstPercent(value) # <<>>
    /\ ~isNaN(parseFloat(RemoveFirstPercent(value)))

\* The values at the indices found, the last of them with its "%".
LastFound(values, found) ==
    IF found = {} THEN Null ELSE Str(WithPercent(values[SetMax(found)]))

\* The operating margin out of the values of the "Financing Margin %" row,
\* scanned from the last one backwards.  screenerParser.js takes the first
\* value that is neither empty nor "-"; format.js drops the empty and "-"
\* values first, then takes the first value that is numeric.
LatestOf(values, web) ==
    LastFound(values,
              {i \in 1..Len(values) :
                  /\ values[i] # <<>> /\ values[i] # <<"-">>
                  /\ web => IsNumeric(values[i])})

LatestMargin(row, web) == LatestOf(SplitWs(Trim(row)), web)

\* The loose pattern of format.js applies when the tight one found nothing.
LooseGrowth(text, web, tight, loose) ==
    IF web /\ ~Truthy(tight) /\ loose.ok
    THEN Str(Group(text, loose, 1).s \o <<"%">>)
    ELSE tight

\* The TTM growth figure after "Compounded <what> Growth".
GrowthTtm(text, what, web) ==
    LooseGrowth(text, web, extractString(text, ReGrowthTtm(what)),
                Match(text, ReGrowthTtmLoose(what)))

OperatingMargin(text, web, marginMatch) ==
    IF marginMatch.ok THEN LatestMargin(Group(text, marginMatch, 1).s, web)
    ELSE Null

GrowthRecord(absent, revenueGrowthYoY, profitGrowthYoY, operatingMargin) ==
    [revenueGrowthYoY |-> OrElse(revenueGrowthYoY, absent),
     profitGrowthYoY |-> OrElse(profitGrowthYoY, absent),
     operatingMargin |-> OrElse(operatingMargin, absent)]

\* extractGrowth(text)
extractGrowth(text, web) ==
    GrowthRecord(IF web THEN Null ELSE NA,
                 GrowthTtm(text, <<"S","a","l","e","s">>, web),
                 GrowthTtm(text, <<"P","r","o","f","i","t">>, web),
                 OperatingMargin(text, web, Match(text, ReFinancingMargin)))

\* v.includes("%") || /^\d/.test(v)
IsHoldingValue(v) == Includes(v, "%") \/ StartsWithDigit(v)

\* The values of a matched row: the captured run, trimmed, split at white
\* space, the pieces that are no values dropped; <<>> without a row.
RowValues(text, match) ==
    IF match.ok
    THEN SelectSeq(SplitWs(Trim(Group(text, match, 1).s)), IsHoldingValue)
    ELSE <<>>

\* The values of the row led by label.
HoldingValues(text, label) == RowValues(text, Match(text, ReHolder(label)))

\* The change taken from the latest quarter to the one before.
ChangeOfReversed(curr, prev) ==
    IF prev # Null /\ curr # Null THEN RoundDiff2(prev, curr) ELSE Null

\* curr - prev rounded to two places, when both are numbers.
ChangeOf(curr, prev) ==
    IF prev # Null /\ curr # Null THEN RoundDiff2(curr, prev) ELSE Null

\* The change of the promoter holding since the previous quarter.
\* A change that takes a figure that did not parse for nought.
NullAsZero(v) == IF v = Null THEN Num(0, 0) ELSE v
PromoterChangeNullAsZero(values) ==
    IF Len(values) >= 2
    THEN RoundDiff2(NullAsZero(LastNumber(values)),
                    NullAsZero(parseIndianNumber(Str(values[Len(values) - 1]))))
    ELSE Null

PromoterChange(values) ==
    IF Len(values) >= 2
    THEN ChangeOf(LastNumber(values),
                  parseIndianNumber(Str(values[Len(values) - 1])))
    ELSE Null

\* A record that carries only the fields that were found.
ShareholdingRecordSparse(promoterValues, fii, dii, public) ==
    LET all == [promoter |-> LastNumber(promoterValues),
                promoterChange |-> PromoterChange(promoterValues),
                fii |-> fii, dii |-> dii, public |-> public]
    IN  [key \in {k \in DOMAIN all : all[k] # Null} |-> all[key]]

\* The promoter's figures out of the values of the promoter's row.
ShareholdingRecord(promoterValues, fii, dii, public) ==
    [promoter |-> LastNumber(promoterValues),
     promoterChange |-> PromoterChange(promoterValues),
     fii |-> fii, dii |-> dii, public |-> public]

\* extractShareholding(text)
extractShareholding(text) ==
    ShareholdingRecord(HoldingValues(text, LabelPromoter),
                       LastNumber(HoldingValues(text, LabelFii)),
                       LastNumber(HoldingValues(text, LabelDii)),
                       LastNumber(HoldingValues(text, LabelPublic)))

\* `${label} (${date})`
ActionText(label, date) == Str(label \o <<" ","(">> \o date \o <<")">>)

KeywordDividend == <<"D","i","v","i","d","e","n","d">>
KeywordBonus == <<"B","o","n","u","s">>
KeywordSplit == <<"S","p","l","i","t">>

\* A chain that asks for the dividend before the ESOP/ESPS allotment.
FirstActionDividendFirst(text, web, esopMatch, dividendMatch, bonusMatch, splitMatch) ==
    IF dividendMatch.ok
    THEN ActionText(<<"D","i","v","i","d","e","n","d">>, Group(text, dividendMatch, 1).s)
    ELSE IF esopMatch.ok
    THEN ActionText(IF web THEN <<"E","S","O","P","/","E","S","P","S">> ELSE <<"E","S","O","P","/","E","S","P","S"," ","A","l","l","o","t","m","e","n","t">>,
                    Group(text, esopMatch, 1).s)
    ELSE IF bonusMatch.ok
    THEN ActionText(<<"B","o","n","u","s">>, Group(text, bonusMatch, 1).s)
    ELSE IF splitMatch.ok
    THEN ActionText(<<"S","t","o","c","k"," ","S","p","l","i","t">>, Group(text, splitMatch, 1).s)
    ELSE IF web THEN Null ELSE NA

\* The first of the four matches that is one, with its label.
FirstAction(text, web, esopMatch, dividendMatch, bonusMatch, splitMatch) ==
    IF esopMatch.ok
    THEN ActionText(IF web THEN <<"E","S","O","P","/","E","S","P","S">> ELSE <<"E","S","O","P","/","E","S","P","S"," ","A","l","l","o","t","m","e","n","t">>,
                    Group(text, esopMatch, 1).s)
    ELSE IF dividendMatch.ok
    THEN ActionText(<<"D","i","v","i","d","e","n","d">>, Group(text, dividendMatch, 1).s)
    ELSE IF bonusMatch.ok
    THEN ActionText(<<"B","o","n","u","s">>, Group(text, bonusMatch, 1).s)
    ELSE IF splitMatch.ok
    THEN ActionText(<<"S","t","o","c","k"," ","S","p","l","i","t">>, Group(text, splitMatch, 1).s)
    ELSE IF web THEN Null ELSE NA

\* The corporate action reported: the keywords are looked up in the whole
\* text, and the first of ESOP/ESPS, Dividend, Bonus, Split that has a match
\* is reported with the date fragment of its match.
CorporateAction(text, web) ==
    FirstAction(text, web, Match(text, ReEsop(web)),
                Match(text, ReAction(KeywordDividend, web)),
                Match(text, ReAction(KeywordBonus, web)),
                Match(text, ReAction(KeywordSplit, web)))

\* match[0].substring(0, 100).trim()
HeadlineLimit == 100
Headline(text, match) == Str(Trim(Substring0(Whole(text, match), HeadlineLimit)))

NoAnnouncement == [has |-> FALSE, headline |-> Null]

\* if (boardMeetingMatch) { flag; headline = ... }
AfterBoardMeeting(text, boardMeetingMatch) ==
    IF boardMeetingMatch.ok
    THEN [has |-> TRUE, headline |-> Headline(text, boardMeetingMatch)]
    ELSE NoAnnouncement

\* A check that sets the flag and leaves the headline as it was.
AfterLodrFlagOnly(text, web, lodrMatch, before) ==
    IF web /\ lodrMatch.ok /\ ~Truthy(before.headline)
    THEN [has |-> TRUE, headline |-> before.headline]
    ELSE before

\* format.js: if (lodrMatch && !announcementHeadline) { flag; headline = ... }
AfterLodr(text, web, lodrMatch, before) ==
    IF web /\ lodrMatch.ok /\ ~Truthy(before.headline)
    THEN [has |-> TRUE, headline |-> Headline(text, lodrMatch)]
    ELSE before

\* if (rbiMatch) { flag; if (!announcementHeadline) headline = ... }
AfterRbi(text, rbiMatch, before) ==
    IF rbiMatch.ok
    THEN [has |-> TRUE,
          headline |-> OrElse(before.headline, Headline(text, rbiMatch))]
    ELSE before

\* The announcement signal: [has, headline].
Announcement(text, web) ==
    AfterRbi(text, Match(text, ReRbi),
             AfterLodr(text, web, Match(text, ReLodr),
                       AfterBoardMeeting(text, Match(text, ReBoardMeeting(web)))))

CorporateSignalsRecord(web, resultDate, action, announcement) ==
    IF web
    THEN [upcomingResultDate |-> OrElse(resultDate, Null),
          recentCorporateAction |-> action,
          hasAnnouncement |-> Bool(announcement.has),
          announcementHeadline |-> announcement.headline]
    ELSE [upcomingResultDate |-> OrElse(resultDate, NA),
          recentCorporateAction |-> action,
          recentAnnouncement |-> Str(IF announcement.has THEN <<"Y","e","s">> ELSE <<"N","o">>),
          announcementHeadline |-> announcement.headline]

\* extractCorporateSignals(text)
extractCorporateSignals(text, web) ==
    CorporateSignalsRecord(web, extractString(text, ReResultDate),
                           CorporateAction(text, web), Announcement(text, web))

\* A method called on a capture that took no part in the match (undefined)
\* raises a TypeError.
UndefinedGroup(text, match) == match.ok /\ Group(text, match, 1).k = "undefined"

\* Whether match[1].trim() raises, for the match of re.
TrimOfGroupRaises(text, re) == UndefinedGroup(text, Match(text, re))

extractFinancialStrengthRaises(text, web) ==
    \/ TrimOfGroupRaises(text, RePlSection)
    \/ web /\ TrimOfGroupRaises(text, ReEpsRow)

extractGrowthRaises(text) == TrimOfGroupRaises(text, ReFinancingMargin)

extractShareholdingRaises(text) ==
    \E label \in {LabelPromoter, LabelFii, LabelDii, LabelPublic} :
        TrimOfGroupRaises(text, ReHolder(label))

\* ------------------------------------------------------- countDataPoints

\* A JavaScript object is a record of its properties; the values above are
\* the leaves.
IsObject(val) == "k" \notin DOMAIN val

\* A count that takes "N/A" for a value.
CountLeafNotNull(val) == <<1, IF val # Null THEN 1 ELSE 0>>

\* One leaf: counted, and counted as extracted unless null or "N/A".
CountLeaf(val) == <<1, IF val # Null /\ val # NA THEN 1 ELSE 0>>

\* Two counts added.
Plus2(a, b) == <<a[1] + b[1], a[2] + b[2]>>


\* A walk that does not descend into the sections.
CountValueFlat(key, val) == IF key = "_meta" THEN <<0, 0>> ELSE CountLeaf(val)

RECURSIVE CountKeys(_, _)
RECURSIVE CountFrom(_, _, _)
RECURSIVE CountValue(_, _)
\* for (const key in obj): <<total, extracted>> over the keys to visit
CountKeys(obj, keys) ==
    IF keys = {} THEN <<0, 0>> ELSE CountFrom(obj, keys, CHOOSE k \in keys : TRUE)

\* One key, then the other keys.
CountFrom(obj, keys, key) ==
    Plus2(CountValue(key, obj[key]), CountKeys(obj, keys \ {key}))

\* if (key === "_meta") continue; an object is counted into, a leaf counted
CountValue(key, val) ==
    IF key = "_meta" THEN <<0, 0>>
    ELSE IF IsObject(val) THEN CountKeys(val, DOMAIN val)
    ELSE CountLeaf(val)

\* countDataPoints(data)
DataPoints(c) == [total |-> c[1], extracted |-> c[2]]
countDataPoints(data) == DataPoints(CountKeys(data, DOMAIN data))

\* ------------------------------------------------------------ the inputs

\* Lines of pasted text.
LinePrice == <<"₹"," ","9","3","7">>
LinePriceZero == <<"₹"," ","0">>
LinePE == <<"S","t","o","c","k"," ","P","/","E","\n","2","0",".","3">>
LineBookValue == <<"B","o","o","k"," ","V","a","l","u","e","\n","₹"," ","3","3","7">>
LineBookValueZero == <<"B","o","o","k"," ","V","a","l","u","e","\n","₹"," ","0">>
LineRoe == <<"R","O","E","\n","1","4",".","3"," ","%">>
LinePromoters == <<"P","r","o","m","o","t","e","r","s"," ","+","\t","2","5",".","5","9","%","\t","2","5",".","5","2","%">>
LineExplicitPB == <<"t","r","a","d","i","n","g"," ","a","t"," ","3",".","5"," ","t","i","m","e","s"," ","i","t","s"," ","b","o","o","k"," ","v","a","l","u","e">>
LineExplicitPBZero == <<"t","r","a","d","i","n","g"," ","a","t"," ","0"," ","t","i","m","e","s"," ","i","t","s"," ","b","o","o","k"," ","v","a","l","u","e">>
LineEsop == <<"E","S","O","P"," ","/"," ","E","S","P","S"," ","a","l","l","o","t","m","e","n","t"," ","7"," ","D","e","c">>
LineDividend == <<"D","i","v","i","d","e","n","d"," ","d","e","c","l","a","r","e","d"," ","1","2"," ","J","a","n">>
LineDividendUndated == <<"D","i","v","i","d","e","n","d"," ","p","o","l","i","c","y">>
LineBonus == <<"B","o","n","u","s"," ","i","s","s","u","e"," ","5"," ","F","e","b">>
LineSplit == <<"S","t","o","c","k"," ","S","p","l","i","t"," ","3"," ","M","a","r">>

\* A page as it is pasted, with every field the parser looks for.
PageFull == <<"H","D","F","C"," ","B","a","n","k"," ","L","t","d","\n","₹"," ","9","3","7","\n","M","a","r","k","e","t"," ","C","a","p","\n","₹"," ","1","4",",","4","1",",","4","5","7"," ","C","r",".","\n","H","i","g","h"," ","/"," ","L","o","w","\n","₹"," ","1",",","0","2","0"," ","/"," ","8","1","2","\n","S","t","o","c","k"," ","P","/","E","\n","2","0",".","3","\n","B","o","o","k"," ","V","a","l","u","e","\n","₹"," ","3","3","7","\n","R","O","C","E","\n","7",".","3","5"," ","%","\n","R","O","E","\n","1","4",".","3"," ","%","\n","F","a","c","e"," ","V","a","l","u","e","\n","₹"," ","1",".","0","0","\n","P","r","o","f","i","t"," ","&"," ","L","o","s","s","\n","M","a","r"," ","2","0","2","5","\t","T","T","M","\n","E","P","S"," ","i","n"," ","R","s","\t","4","4",".","0","1","\t","4","6",".","4","2","\n","C","o","m","p","o","u","n","d","e","d"," ","S","a","l","e","s"," ","G","r","o","w","t","h","\n","T","T","M",":","\t","6","%","\n","C","o","m","p","o","u","n","d","e","d"," ","P","r","o","f","i","t"," ","G","r","o","w","t","h","\n","T","T","M",":","\t","8","%","\n","F","i","n","a","n","c","i","n","g"," ","M","a","r","g","i","n"," ","%","\t","1","2","%","\t","-","5","%","\t","-","\n","P","r","o","m","o","t","e","r","s"," ","+","\t","2","5",".","5","9","%","\t","2","5",".","5","2","%","\n","F","I","I","s"," ","+","\t","3","2",".","2","4","%","\t","3","3",".","3","8","%","\n","D","I","I","s"," ","+","\t","2","8",".","0","9","%","\t","2","6",".","7","5","%","\n","P","u","b","l","i","c"," ","+","\t","1","3",".","9","1","%","\t","1","4",".","1","9","%","\n","U","p","c","o","m","i","n","g"," ","r","e","s","u","l","t"," ","d","a","t","e",":"," ","1","7"," ","J","a","n","u","a","r","y"," ","2","0","2","6","\n","B","o","a","r","d"," ","M","e","e","t","i","n","g"," ","I","n","t","i","m","a","t","i","o","n","\n","r","e","s","u","l","t","s",","," ","1","7"," ","J","a","n","\n","R","B","I"," ","a","p","p","r","o","v","e","d"," ","t","h","e"," ","a","p","p","o","i","n","t","m","e","n","t">>

\* The other layout: the market capitalisation as "Mar Cap Rs.Cr.", the
\* growth figure away from its TTM marker, an announcement under SEBI rules.
PageOther == <<"M","a","r"," ","C","a","p"," ","R","s",".","C","r",".","\n","1","4","4","1","4","5","6",".","9","6","\n","M","a","r"," ","2","0","2","5"," ","T","T","M","\n","E","P","S"," ","i","n"," ","R","s"," ","4","4",".","0","1"," ","4","6",".","4","2","\n","C","o","m","p","o","u","n","d","e","d"," ","S","a","l","e","s"," ","G","r","o","w","t","h","\n","T","T","M"," ","a","b","o","u","t"," ","6"," ","%","\n","F","i","n","a","n","c","i","n","g"," ","M","a","r","g","i","n"," ","%"," ","1","2"," ","-"," ","x","\n","P","u","b","l","i","c"," ","1","4",".","1","9","\n","I","n","t","i","m","a","t","i","o","n"," ","U","n","d","e","r"," ","S","E","B","I"," ","r","u","l","e","s","\n","B","o","n","u","s"," ","i","s","s","u","e"," ","5"," ","F","e","b">>

ValuationLines == {LinePrice, LinePriceZero, LineBookValue, LineBookValueZero,
                   LineExplicitPB, LineExplicitPBZero}
ActionLines == {LineEsop, LineDividend, LineDividendUndated, LineBonus, LineSplit}
ScenarioLines == {LinePrice, LinePE, LineBookValue, LineRoe, LinePromoters}

\* The most lines of a text put together from lines.
MaxLines == 3

\* The sequences of 1..n elements of V.
SeqsUpTo(V, n) == UNION {[1..k -> V] : k \in 1..n}
\* Those with no element twice.
ArrangementsUpTo(V, n) ==
    {q \in SeqsUpTo(V, n) : \A i, j \in 1..Len(q) : i # j => q[i] # q[j]}
Arrangements(V) == ArrangementsUpTo(V, Cardinality(V))

RECURSIVE JoinLines(_)
\* The lines, each but the last followed by a line break.
JoinLines(lines) ==
    IF Len(lines) = 1 THEN lines[1]
    ELSE lines[1] \o <<"\n">> \o JoinLines(Tail(lines))

Texts ==
    {JoinLines(q) : q \in ArrangementsUpTo(ValuationLines, MaxLines)}
    \cup {JoinLines(q) : q \in ArrangementsUpTo(ActionLines, MaxLines)}
    \cup {JoinLines(q) : q \in Arrangements(ScenarioLines)}
    \cup {PageFull, PageOther, <<" ">>, <<"n","o"," ","d","a","t","a">>}

\* What parseScreenerText may be called with: a text, the empty string, or
\* a value that is no string.
Inputs ==
    {Str(t) : t \in Texts} \cup {Str(<<>>), Null, Undefined, Obj, Num(0, 0), Num(42, 0)}

\* The characters of the tokens enumerated for parseIndianNumber.
TokenAlphabet == {Rupee, ",", " ", "%", "-", ".", "1", "5", "e", "a"}
NamedTokens == {<<"1",",","2","3",",","4","5","6",".","7","8">>, <<"₹"," ","9","3","7">>, <<"1","2",".","5","%">>, <<"a","b","c">>, <<"I","n","f","i","n","i","t","y">>,
                <<"-","I","n","f","i","n","i","t","y">>, <<"1","4",",","4","1",",","4","5","7">>, <<"1","e","9","9","9">>, <<"2","5",".","5","2","%">>}
Tokens == {<<>>} \cup SeqsUpTo(TokenAlphabet, MaxTokLen) \cup NamedTokens
NumberArgs == {Str(t) : t \in Tokens} \cup {Null, Undefined, Obj, Num(937, 0)}

\* --------------------------------------------------------------- the state

VARIABLES
    web,                \* FALSE: screenerParser.js, TRUE: the browser's parser
    rawText,            \* the argument of parseScreenerText
    pc,                 \* where the call is
    priceVolume,        \* the section records, in the order they are made
    valuation,
    financialStrength,
    growth,
    shareholding,
    corporateSignals,
    result,             \* what the call returned
    error,              \* what the call threw
    now,                \* the clock that new Date() reads
    previous,           \* the calls made before this one: what each was
                        \* given and what came of it
    initialized,        \* nseClient.js: the session has been warmed up
    homepage,           \* how many times the homepage has been requested
    resets,             \* how many times resetSession has been called
    nsePc,              \* where each asynchronous function stands
    out,                \* the lines each of them has printed
    quoteHeaderPrinted, \* index.js: the "Quote" header is out
    raw,                \* index.js: RAW, the --raw flag
    requests,           \* the API endpoints each function has requested
    answered,           \* how many homepage requests have been answered
    thrown,             \* the error fetchNSE threw to each function
    appOutput,          \* App.jsx: output
    appError,           \* App.jsx: error
    appLoading,         \* App.jsx: loading
    yahooLoading,       \* App.jsx: yahooLoading
    clicks,             \* how many times Extract has been clicked
    calls,              \* where the handleExtract of each click stands
    display             \* what the presentation made of the record

sections == <<priceVolume, valuation, financialStrength, growth, shareholding,
              corporateSignals>>
numVars == <<numArg, numRes, numPc>>
parseVars == <<web, rawText, pc, sections, result, error>>
callVars == <<now, previous>>
apiVars == <<requests, answered, thrown>>
nseVars == <<initialized, homepage, resets, nsePc, out, quoteHeaderPrinted, raw, apiVars>>
appVars == <<appOutput, appError, appLoading, yahooLoading, clicks, calls>>
vars == <<numVars, parseVars, callVars, nseVars, display, appVars>>

\* A variable that holds nothing yet.
Unset == [unset |-> TRUE]

InvalidInput == <<"I","n","v","a","l","i","d"," ","i","n","p","u","t",":"," ","r","a","w","T","e","x","t"," ","m","u","s","t"," ","b","e"," ","a"," ","n","o","n","-","e","m","p","t","y"," ","s","t","r","i","n","g">>
TypeError == <<"T","y","p","e","E","r","r","o","r">>

\* The most clicks of Extract followed.
MaxClicks == 2

\* A handleExtract that has not been started.
NoCall == [pc |-> "off", text |-> <<>>, chart |-> "none", summary |-> "none",
           fields |-> Unset, yahoo |-> Unset]

AppIdle ==
    /\ appOutput = Null /\ appError = Null
    /\ appLoading = FALSE /\ yahooLoading = FALSE
    /\ clicks = 0
    /\ calls = [i \in 1..MaxClicks |-> NoCall]

NumIdle == numArg = Null /\ numRes = Unset /\ numPc = "off"
FirstCall == now = 1 /\ previous = <<>> /\ display = Unset

\* The functions of index.js that run side by side, by the name of the API
\* each reports under, main, and the callers of a program that uses
\* nseData.js without index.js.
Tasks == {"quote-equity", "trade_info", "corporate-actions", "announcements",
          "shareholding"}
Callers == {"caller1", "caller2"}
AllProcs == {"main"} \cup Tasks \cup Callers

NoRequests ==
    /\ requests = [p \in AllProcs |-> <<>>]
    /\ answered = 0
    /\ thrown = [p \in AllProcs |-> Unset]

NseIdle ==
    /\ NoRequests
    /\ initialized = FALSE /\ homepage = 0 /\ resets = 0
    /\ nsePc = [p \in AllProcs |-> "off"]
    /\ out = [p \in AllProcs |-> <<>>]
    /\ quoteHeaderPrinted = FALSE
    /\ raw = FALSE
ParseIdle ==
    /\ web = FALSE /\ rawText = Null /\ pc = "off"
    /\ priceVolume = Unset /\ valuation = Unset /\ financialStrength = Unset
    /\ growth = Unset /\ shareholding = Unset /\ corporateSignals = Unset
    /\ result = Unset /\ error = Unset

\* ------------------------------------------------------ parseScreenerText

Init ==
    /\ NumIdle
    /\ FirstCall
    /\ AppIdle
    /\ NseIdle
    /\ web \in BOOLEAN
    /\ rawText \in Inputs
    /\ pc = "validate"
    /\ priceVolume = Unset /\ valuation = Unset /\ financialStrength = Unset
    /\ growth = Unset /\ shareholding = Unset /\ corporateSignals = Unset
    /\ result = Unset /\ error = Unset

\* A validation that forgets the empty string.
AcceptsAnyString(v) == v.k = "str"

\* if (!rawText || typeof rawText !== "string") throw new Error(...)
ValidInput(v) == Truthy(v) /\ v.k = "str"

Validate ==
    /\ pc = "validate"
    /\ IF ValidInput(rawText)
       THEN pc' = "priceVolume" /\ error' = error
       ELSE pc' = "threw" /\ error' = InvalidInput
    /\ UNCHANGED <<web, rawText, sections, result, numVars, callVars, nseVars, display,
                   appVars>>

\* const priceVolume = extractPriceVolume(rawText)
PriceVolumeStep ==
    /\ pc = "priceVolume"
    /\ priceVolume' = extractPriceVolume(rawText.s, web)
    /\ pc' = "valuation"
    /\ UNCHANGED <<web, rawText, valuation, financialStrength, growth,
                   shareholding, corporateSignals, result, error,
                   numVars, callVars, nseVars, display,
                   appVars>>

\* const valuation = extractValuation(rawText)
ValuationStep ==
    /\ pc = "valuation"
    /\ valuation' = extractValuation(rawText.s, web)
    /\ pc' = "financialStrength"
    /\ UNCHANGED <<web, rawText, priceVolume, financialStrength, growth,
                   shareholding, corporateSignals, result, error,
                   numVars, callVars, nseVars, display,
                   appVars>>

\* const financialStrength = extractFinancialStrength(rawText)
FinancialStrengthStep ==
    /\ pc = "financialStrength"
    /\ IF extractFinancialStrengthRaises(rawText.s, web)
       THEN /\ pc' = "threw" /\ error' = TypeError
            /\ financialStrength' = financialStrength
       ELSE /\ financialStrength' = extractFinancialStrength(rawText.s, web)
            /\ pc' = "growth" /\ error' = error
    /\ UNCHANGED <<web, rawText, priceVolume, valuation, growth,
                   shareholding, corporateSignals, result, numVars, callVars, nseVars, display,
                   appVars>>

\* const growth = extractGrowth(rawText)
GrowthStep ==
    /\ pc = "growth"
    /\ IF extractGrowthRaises(rawText.s)
       THEN pc' = "threw" /\ error' = TypeError /\ growth' = growth
       ELSE /\ growth' = extractGrowth(rawText.s, web)
            /\ pc' = "shareholding" /\ error' = error
    /\ UNCHANGED <<web, rawText, priceVolume, valuation, financialStrength,
                   shareholding, corporateSignals, result, numVars, callVars, nseVars, display,
                   appVars>>

\* An extractor that keeps the holdings of the call before in a variable of
\* the module and answers from it.
ShareholdingStepCached ==
    /\ pc = "shareholding"
    /\ shareholding' =
          IF previous # <<>> /\ previous[Len(previous)].pc = "returned"
          THEN previous[Len(previous)].result.shareholding
          ELSE extractShareholding(rawText.s)
    /\ pc' = "corporateSignals"
    /\ UNCHANGED <<web, rawText, priceVolume, valuation, financialStrength,
                   growth, corporateSignals, result, error, numVars, callVars, nseVars, display,
                   appVars>>

\* const shareholding = extractShareholding(rawText)
ShareholdingStep ==
    /\ pc = "shareholding"
    /\ IF extractShareholdingRaises(rawText.s)
       THEN pc' = "threw" /\ error' = TypeError /\ shareholding' = shareholding
       ELSE /\ shareholding' = extractShareholding(rawText.s)
            /\ pc' = "corporateSignals" /\ error' = error
    /\ UNCHANGED <<web, rawText, priceVolume, valuation, financialStrength,
                   growth, corporateSignals, result, numVars, callVars, nseVars, display,
                   appVars>>

\* const corporateSignals = extractCorporateSignals(rawText)
CorporateSignalsStep ==
    /\ pc = "corporateSignals"
    /\ corporateSignals' = extractCorporateSignals(rawText.s, web)
    /\ pc' = "return"
    /\ UNCHANGED <<web, rawText, priceVolume, valuation, financialStrength,
                   growth, shareholding, result, error, numVars, callVars, nseVars, display,
                   appVars>>

\* The six sections as one object.
SectionsObject ==
    [priceVolume |-> priceVolume, valuation |-> valuation,
     financialStrength |-> financialStrength, growth |-> growth,
     shareholding |-> shareholding, corporateSignals |-> corporateSignals]

\* _meta of screenerParser.js; parsedAt is the reading of the clock
Meta == [parsedAt |-> now,
         source |-> Str(<<"s","c","r","e","e","n","e","r",".","i","n">>),
         dataPoints |-> countDataPoints(SectionsObject)]

\* return { priceVolume, ..., corporateSignals, _meta: {...} }; the browser's
\* parser returns the six sections alone.
Return ==
    /\ pc = "return"
    /\ result' = IF web THEN SectionsObject ELSE SectionsObject @@ ("_meta" :> Meta)
    /\ pc' = "returned"
    /\ UNCHANGED <<web, rawText, sections, error, numVars, callVars, nseVars, display,
                   appVars>>

Next ==
    \/ Validate
    \/ PriceVolumeStep
    \/ ValuationStep
    \/ FinancialStrengthStep
    \/ GrowthStep
    \/ ShareholdingStep
    \/ CorporateSignalsStep
    \/ Return

Spec == Init /\ [][Next]_vars

\* --------------------------------------------- one call after another
\* parseScreenerText is called again in the same process: its locals are new,
\* whatever the module kept would still be there, and the clock has moved on
\* or not.

MaxCalls == 3
MaxTime == 2

AgainInputs == {Str(PageFull), Str(PageOther), Null}

InitAgain ==
    /\ NumIdle
    /\ FirstCall
    /\ AppIdle
    /\ NseIdle
    /\ web \in BOOLEAN
    /\ rawText \in AgainInputs
    /\ pc = "validate"
    /\ priceVolume = Unset /\ valuation = Unset /\ financialStrength = Unset
    /\ growth = Unset /\ shareholding = Unset /\ corporateSignals = Unset
    /\ result = Unset
    /\ error = Unset

\* What a finished call leaves to be compared with.
Outcome == [rawText |-> rawText, pc |-> pc, result |-> result, error |-> error]

CallAgain ==
    /\ pc \in {"returned", "threw"}
    /\ Len(previous) + 1 < MaxCalls
    /\ previous' = Append(previous, Outcome)
    /\ now' \in now..MaxTime
    /\ rawText' \in AgainInputs
    /\ pc' = "validate"
    /\ priceVolume' = Unset /\ valuation' = Unset /\ financialStrength' = Unset
    /\ growth' = Unset /\ shareholding' = Unset /\ corporateSignals' = Unset
    /\ result' = Unset
    /\ error' = Unset
    /\ UNCHANGED <<web, numVars, nseVars, display,
                   appVars>>

NextAgain ==
    \/ Validate
    \/ PriceVolumeStep
    \/ ValuationStep
    \/ FinancialStrengthStep
    \/ GrowthStep
    \/ ShareholdingStep
    \/ CorporateSignalsStep
    \/ Return
    \/ CallAgain

SpecAgain == InitAgain /\ [][NextAgain]_vars

\* ------------------------------------------ the extractors in any order
\* The six calls of lines 330-335 taken in any order: each reads rawText and
\* writes the one local that holds what it returned.

AnyOrderInputs ==
    AgainInputs \cup {Str(JoinLines(<<LinePrice, LineBookValue>>)), Str(<<>>)}

InitAnyOrder ==
    /\ NumIdle
    /\ FirstCall
    /\ AppIdle
    /\ NseIdle
    /\ web \in BOOLEAN
    /\ rawText \in AnyOrderInputs
    /\ pc = "validate"
    /\ priceVolume = Unset /\ valuation = Unset /\ financialStrength = Unset
    /\ growth = Unset /\ shareholding = Unset /\ corporateSignals = Unset
    /\ result = Unset
    /\ error = Unset

IsSet(section) == "unset" \notin DOMAIN section

\* Where the call stands once the others are as given: at the return when
\* all have been computed.
AfterExtractor(others) ==
    IF \A i \in 1..Len(others) : IsSet(others[i]) THEN "return" ELSE "extracting"

ValidateAnyOrder ==
    /\ pc = "validate"
    /\ IF ValidInput(rawText)
       THEN pc' = "extracting" /\ error' = error
       ELSE pc' = "threw" /\ error' = InvalidInput
    /\ UNCHANGED <<web, rawText, sections, result, numVars, callVars, nseVars, display,
                   appVars>>

PriceVolumeAnyOrder ==
    /\ pc = "extracting" /\ ~IsSet(priceVolume)
    /\ priceVolume' = extractPriceVolume(rawText.s, web)
    /\ pc' = AfterExtractor(<<valuation, financialStrength, growth,
                              shareholding, corporateSignals>>)
    /\ UNCHANGED <<web, rawText, valuation, financialStrength, growth,
                   shareholding, corporateSignals, result, error,
                   numVars, callVars, nseVars, display,
                   appVars>>

\* A valuation that takes the price from what extractPriceVolume left
\* instead of reading it in the text.
ValuationAnyOrderShared ==
    /\ pc = "extracting" /\ ~IsSet(valuation)
    /\ valuation' =
          ValuationRecord(web, extractNumber(rawText.s, RePeRatio),
                          extractNumber(rawText.s, ReBookValue),
                          extractNumber(rawText.s, ReFaceValue),
                          IF IsSet(priceVolume) THEN priceVolume.cmp ELSE Undefined,
                          extractNumber(rawText.s, ReExplicitPB))
    /\ pc' = AfterExtractor(<<priceVolume, financialStrength, growth,
                              shareholding, corporateSignals>>)
    /\ UNCHANGED <<web, rawText, priceVolume, financialStrength, growth,
                   shareholding, corporateSignals, result, error,
                   numVars, callVars, nseVars, display,
                   appVars>>

ValuationAnyOrder ==
    /\ pc = "extracting" /\ ~IsSet(valuation)
    /\ valuation' = extractValuation(rawText.s, web)
    /\ pc' = AfterExtractor(<<priceVolume, financialStrength, growth,
                              shareholding, corporateSignals>>)
    /\ UNCHANGED <<web, rawText, priceVolume, financialStrength, growth,
                   shareholding, corporateSignals, result, error,
                   numVars, callVars, nseVars, display,
                   appVars>>

FinancialStrengthAnyOrder ==
    /\ pc = "extracting" /\ ~IsSet(financialStrength)
    /\ IF extractFinancialStrengthRaises(rawText.s, web)
       THEN /\ pc' = "threw" /\ error' = TypeError
            /\ financialStrength' = financialStrength
       ELSE /\ financialStrength' = extractFinancialStrength(rawText.s, web)
            /\ pc' = AfterExtractor(<<priceVolume, valuation, growth,
                                      shareholding, corporateSignals>>)
            /\ error' = error
    /\ UNCHANGED <<web, rawText, priceVolume, valuation, growth,
                   shareholding, corporateSignals, result, numVars, callVars, nseVars, display,
                   appVars>>

GrowthAnyOrder ==
    /\ pc = "extracting" /\ ~IsSet(growth)
    /\ IF extractGrowthRaises(rawText.s)
       THEN pc' = "threw" /\ error' = TypeError /\ growth' = growth
       ELSE /\ growth' = extractGrowth(rawText.s, web)
            /\ pc' = AfterExtractor(<<priceVolume, valuation, financialStrength,
                                      shareholding, corporateSignals>>)
            /\ error' = error
    /\ UNCHANGED <<web, rawText, priceVolume, valuation, financialStrength,
                   shareholding, corporateSignals, result, numVars, callVars, nseVars, display,
                   appVars>>

ShareholdingAnyOrder ==
    /\ pc = "extracting" /\ ~IsSet(shareholding)
    /\ IF extractShareholdingRaises(rawText.s)
       THEN pc' = "threw" /\ error' = TypeError /\ shareholding' = shareholding
       ELSE /\ shareholding' = extractShareholding(rawText.s)
            /\ pc' = AfterExtractor(<<priceVolume, valuation, financialStrength,
                                      growth, corporateSignals>>)
            /\ error' = error
    /\ UNCHANGED <<web, rawText, priceVolume, valuation, financialStrength,
                   growth, corporateSignals, result, numVars, callVars, nseVars, display,
                   appVars>>

CorporateSignalsAnyOrder ==
    /\ pc = "extracting" /\ ~IsSet(corporateSignals)
    /\ corporateSignals' = extractCorporateSignals(rawText.s, web)
    /\ pc' = AfterExtractor(<<priceVolume, valuation, financialStrength,
                              growth, shareholding>>)
    /\ UNCHANGED <<web, rawText, priceVolume, valuation, financialStrength,
                   growth, shareholding, result, error, numVars, callVars, nseVars, display,
                   appVars>>

NextAnyOrder ==
    \/ ValidateAnyOrder
    \/ PriceVolumeAnyOrder
    \/ ValuationAnyOrder
    \/ FinancialStrengthAnyOrder
    \/ GrowthAnyOrder
    \/ ShareholdingAnyOrder
    \/ CorporateSignalsAnyOrder
    \/ Return

SpecAnyOrder == InitAnyOrder /\ [][NextAnyOrder]_vars

\* -------------------------------------------------- the rows of a page
\* parseScreenerText on texts put together from the rows the extractors of
\* the tables read.

\* Rows of the shareholding table: two quarters, one quarter without the
\* "+", the percent signs set off by a space, a whole number.
RowPromoters == LinePromoters
RowPromoterOne == <<"P","r","o","m","o","t","e","r"," ","2","5",".","5">>
RowPromotersSpaced == <<"P","r","o","m","o","t","e","r","s"," ","+"," ","2","5",".","5","9"," ","%"," ","2","5",".","5","2"," ","%">>
RowFiis == <<"F","I","I","s"," ","+","\t","3","2",".","2","4","%","\t","3","3",".","3","8","%">>
RowDiis == <<"D","I","I","s"," ","+"," ","2","8">>
RowPublic == <<"P","u","b","l","i","c"," ","+","\t","1","3",".","9","1","%","\t","1","4",".","1","9","%">>
HoldingRows == {RowPromoters, RowPromoterOne, RowPromotersSpaced, RowFiis,
                RowDiis, RowPublic}

\* Announcements: a board meeting with and without the word the parser of
\* format.js asks for, the two phrasings under the regulations, and an
\* approval of more than a hundred characters.
RowBoardIntimation == <<"B","o","a","r","d"," ","M","e","e","t","i","n","g"," ","I","n","t","i","m","a","t","i","o","n"," ","f","o","r"," ","r","e","s","u","l","t","s">>
RowBoardOutcome == <<"B","o","a","r","d"," ","M","e","e","t","i","n","g","\n","o","u","t","c","o","m","e",","," ","1","7"," ","J","a","n">>
RowSebi == <<"I","n","t","i","m","a","t","i","o","n"," ","U","n","d","e","r"," ","S","E","B","I"," ","r","u","l","e","s">>
RowRegulation == <<"A","n","n","o","u","n","c","e","m","e","n","t"," ","u","n","d","e","r"," ","R","e","g","u","l","a","t","i","o","n"," ","3","0">>
RowRbi == <<"R","B","I"," ","a","p","p","r","o","v","e","d"," ","t","h","e"," ","a","p","p","o","i","n","t","m","e","n","t"," ","o","f"," ","t","h","e"," ","p","a","r","t"," ","t","i","m","e"," ","c","h","a","i","r","m","a","n"," ","o","f"," ","t","h","e"," ","b","a","n","k"," ","f","o","r"," ","a"," ","p","e","r","i","o","d"," ","o","f"," ","t","h","r","e","e"," ","y","e","a","r","s"," ","w","i","t","h"," ","e","f","f","e","c","t"," ","f","r","o","m"," ","1"," ","A","p","r">>
AnnouncementRows == {RowBoardIntimation, RowBoardOutcome, RowSebi, RowRegulation,
                     RowRbi}

\* Earnings per share: the row of the quarterly table, and the Profit &
\* Loss table with its TTM column, the last figure positive or zero.
RowEpsQuarterly == <<"E","P","S"," ","i","n"," ","R","s","\t","1","2",".","5">>
RowsProfitLoss == <<"P","r","o","f","i","t"," ","&"," ","L","o","s","s","\n","M","a","r"," ","2","0","2","5","\t","T","T","M","\n","E","P","S"," ","i","n"," ","R","s","\t","4","4",".","0","1","\t","4","6",".","4","2">>
RowsProfitLossZero == <<"P","r","o","f","i","t"," ","&"," ","L","o","s","s","\n","M","a","r"," ","2","0","2","5","\t","T","T","M","\n","E","P","S"," ","i","n"," ","R","s","\t","4","4",".","0","1","\t","0">>
EpsRows == {RowEpsQuarterly, RowsProfitLoss, RowsProfitLossZero}

\* The margin: a row that ends in a placeholder, one that ends in a token
\* that is no number, one with decimals, one of placeholders only.
RowMargin == <<"F","i","n","a","n","c","i","n","g"," ","M","a","r","g","i","n"," ","%","\t","1","2","%","\t","-","5","%","\t","-">>
RowMarginDashes == <<"F","i","n","a","n","c","i","n","g"," ","M","a","r","g","i","n"," ","%"," ","1","2","%"," ","-","-">>
RowMarginDecimal == <<"F","i","n","a","n","c","i","n","g"," ","M","a","r","g","i","n"," ","%","\t","1","2","%","\t","1","3",".","5","%">>
RowMarginEmpty == <<"F","i","n","a","n","c","i","n","g"," ","M","a","r","g","i","n"," ","%"," ","-"," ","-">>
MarginRows == {RowMargin, RowMarginDashes, RowMarginDecimal, RowMarginEmpty}

\* The most rows of a text put together from rows.
MaxRows == 3

RowTexts ==
    {JoinLines(q) : q \in ArrangementsUpTo(HoldingRows, MaxRows)}
    \cup {JoinLines(q) : q \in ArrangementsUpTo(AnnouncementRows, MaxRows)}
    \cup {JoinLines(q) : q \in ArrangementsUpTo(EpsRows, MaxRows)}
    \cup {JoinLines(q) : q \in ArrangementsUpTo(MarginRows, MaxRows)}

InitRows ==
    /\ NumIdle
    /\ FirstCall
    /\ AppIdle
    /\ NseIdle
    /\ web \in BOOLEAN
    /\ rawText \in {Str(t) : t \in RowTexts}
    /\ pc = "validate"
    /\ priceVolume = Unset /\ valuation = Unset /\ financialStrength = Unset
    /\ growth = Unset /\ shareholding = Unset /\ corporateSignals = Unset
    /\ result = Unset
    /\ error = Unset

SpecRows == InitRows /\ [][Next]_vars

\* ------------------------------------------------------ the presentation
SectionNames == {"priceVolume", "valuation", "financialStrength", "growth",
                 "shareholding", "corporateSignals"}

\* String(n) of a finite number in plain notation.
NumberToString(v) ==
    LET digits == IntToChars(Abs(v.m))
        sign == IF v.m < 0 THEN <<"-">> ELSE <<>>
        places == -v.x
    IN  IF v.k = "inf" THEN sign \o <<"I","n","f","i","n","i","t","y">>
        ELSE IF v.x >= 0 THEN sign \o IntToChars(Abs(v.m) * Pow10(v.x))
        ELSE IF Len(digits) > places
        THEN sign \o SubSeq(digits, 1, Len(digits) - places) \o <<".">>
             \o SubSeq(digits, Len(digits) - places + 1, Len(digits))
        ELSE sign \o <<"0", ".">> \o [i \in 1..(places - Len(digits)) |-> "0"]
             \o digits

\* format(value) of format.js: what printKV writes for a value
format(value) ==
    IF value.k \in {"null", "undefined"} THEN Str(<<"n","u","l","l">>)
    ELSE IF value.k \in {"num", "inf"} THEN Str(NumberToString(value))
    ELSE value

\* The labels of flattenParsedData and the field each shows.
FlatFields ==
    [priceVolume |->
        (<<"C","u","r","r","e","n","t"," ","M","a","r","k","e","t"," ","P","r","i","c","e"," ","(","C","M","P",")">> :> "cmp")
        @@ (<<"D","a","y"," ","H","i","g","h"," ","/"," ","L","o","w">> :> "dayHighLow")
        @@ (<<"5","2","-","W","e","e","k"," ","H","i","g","h"," ","/"," ","L","o","w">> :> "week52HighLow")
        @@ (<<"V","o","l","u","m","e"," ","(","t","o","d","a","y",")">> :> "volumeToday")
        @@ (<<"1","0","-","d","a","y"," ","a","v","e","r","a","g","e"," ","v","o","l","u","m","e">> :> "avgVolume10d"),
     valuation |->
        (<<"P","/","E"," ","R","a","t","i","o">> :> "peRatio")
        @@ (<<"I","n","d","u","s","t","r","y"," ","P","/","E">> :> "industryPE")
        @@ (<<"P","/","B"," ","R","a","t","i","o">> :> "pbRatio")
        @@ (<<"F","a","c","e"," ","V","a","l","u","e">> :> "faceValue"),
     financialStrength |->
        (<<"M","a","r","k","e","t"," ","C","a","p","i","t","a","l","i","z","a","t","i","o","n">> :> "marketCap")
        @@ (<<"D","e","b","t"," ","t","o"," ","E","q","u","i","t","y">> :> "debtToEquity")
        @@ (<<"E","P","S"," ","(","T","T","M",")">> :> "epsTTM")
        @@ (<<"R","O","E"," ","(","%",")">> :> "roe")
        @@ (<<"R","O","C","E"," ","(","%",")">> :> "roce"),
     growth |->
        (<<"R","e","v","e","n","u","e"," ","g","r","o","w","t","h"," ","(","Y","o","Y",")">> :> "revenueGrowthYoY")
        @@ (<<"N","e","t"," ","p","r","o","f","i","t"," ","g","r","o","w","t","h"," ","(","Y","o","Y",")">> :> "profitGrowthYoY")
        @@ (<<"O","p","e","r","a","t","i","n","g"," ","m","a","r","g","i","n">> :> "operatingMargin"),
     shareholding |->
        (<<"P","r","o","m","o","t","e","r"," ","h","o","l","d","i","n","g"," ","(","%",")">> :> "promoter")
        @@ (<<"P","r","o","m","o","t","e","r"," ","h","o","l","d","i","n","g"," ","c","h","a","n","g","e">> :> "promoterChange")
        @@ (<<"F","I","I"," ","h","o","l","d","i","n","g"," ","(","%",")">> :> "fii")
        @@ (<<"D","I","I"," ","h","o","l","d","i","n","g"," ","(","%",")">> :> "dii")
        @@ (<<"P","u","b","l","i","c"," ","h","o","l","d","i","n","g"," ","(","%",")">> :> "public"),
     corporateSignals |->
        (<<"R","e","c","e","n","t"," ","r","e","s","u","l","t","s"," ","d","a","t","e">> :> "upcomingResultDate")
        @@ (<<"R","e","c","e","n","t"," ","c","o","r","p","o","r","a","t","e"," ","a","c","t","i","o","n">> :> "recentCorporateAction")
        @@ (<<"R","e","c","e","n","t"," ","a","n","n","o","u","n","c","e","m","e","n","t">> :> "recentAnnouncement")]

\* The labels of formatParsedData and the field each shows.
FormattedFields ==
    [priceVolume |->
        (<<"C","u","r","r","e","n","t"," ","M","a","r","k","e","t"," ","P","r","i","c","e">> :> "cmp")
        @@ (<<"5","2","-","W","e","e","k"," ","H","i","g","h"," ","/"," ","L","o","w">> :> "week52HighLow"),
     valuation |->
        (<<"P","/","E"," ","R","a","t","i","o">> :> "peRatio")
        @@ (<<"P","/","B"," ","R","a","t","i","o">> :> "pbRatio")
        @@ (<<"B","o","o","k"," ","V","a","l","u","e">> :> "bookValue")
        @@ (<<"F","a","c","e"," ","V","a","l","u","e">> :> "faceValue"),
     financialStrength |->
        (<<"M","a","r","k","e","t"," ","C","a","p">> :> "marketCap")
        @@ (<<"E","P","S"," ","(","T","T","M",")">> :> "epsTTM")
        @@ (<<"R","O","E">> :> "roe")
        @@ (<<"R","O","C","E">> :> "roce"),
     growth |->
        (<<"R","e","v","e","n","u","e"," ","G","r","o","w","t","h"," ","(","Y","o","Y",")">> :> "revenueGrowthYoY")
        @@ (<<"P","r","o","f","i","t"," ","G","r","o","w","t","h"," ","(","Y","o","Y",")">> :> "profitGrowthYoY")
        @@ (<<"O","p","e","r","a","t","i","n","g"," ","M","a","r","g","i","n">> :> "operatingMargin"),
     shareholding |->
        (<<"P","r","o","m","o","t","e","r">> :> "promoter")
        @@ (<<"P","r","o","m","o","t","e","r"," ","C","h","a","n","g","e">> :> "promoterChange")
        @@ (<<"F","I","I">> :> "fii")
        @@ (<<"D","I","I">> :> "dii")
        @@ (<<"P","u","b","l","i","c">> :> "public"),
     corporateSignals |->
        (<<"R","e","s","u","l","t","s"," ","D","a","t","e">> :> "upcomingResultDate")
        @@ (<<"C","o","r","p","o","r","a","t","e"," ","A","c","t","i","o","n">> :> "recentCorporateAction")
        @@ (<<"R","e","c","e","n","t"," ","A","n","n","o","u","n","c","e","m","e","n","t">> :> "hasAnnouncement")]

\* One entry of flattenParsedData: the field itself, but
\* parsed.priceVolume.dayHighLow || "N/A" and week52HighLow || "N/A"
FlatEntry(field, value) ==
    IF field \in {"dayHighLow", "week52HighLow"} THEN OrElse(value, NA) ELSE value

\* flattenParsedData(parsed), section by section
flattenParsedData(parsed) ==
    [n \in SectionNames |->
        [label \in DOMAIN FlatFields[n] |->
            FlatEntry(FlatFields[n][label], parsed[n][FlatFields[n][label]])]]

\* value ? `<Rupee>${value}` : null
RupeeOrNull(value) ==
    IF Truthy(value) THEN Str(<<Rupee>> \o NumberToString(value)) ELSE Null
\* value ? `${value}%` : null
PercentOrNull(value) ==
    IF Truthy(value) THEN Str(NumberToString(value) \o <<"%">>) ELSE Null
\* value !== null ? `${value}%` : null
PercentUnlessNull(value) ==
    IF value # Null THEN Str(NumberToString(value) \o <<"%">>) ELSE Null
\* value !== null ? `${value > 0 ? '+' : ''}${value}%` : null
SignedPercentUnlessNull(value) ==
    IF value # Null
    THEN Str((IF GreaterThanZero(value) THEN <<"+">> ELSE <<>>)
             \o NumberToString(value) \o <<"%">>)
    ELSE Null

\* One entry of formatParsedData.
FormattedEntry(signals, field, value) ==
    CASE field \in {"cmp", "bookValue", "faceValue", "epsTTM"} -> RupeeOrNull(value)
      [] field \in {"roe", "roce"} -> PercentOrNull(value)
      [] field \in {"promoter", "fii", "dii", "public"} -> PercentUnlessNull(value)
      [] field = "promoterChange" -> SignedPercentUnlessNull(value)
      [] field = "hasAnnouncement" ->
           IF Truthy(value) THEN OrElse(signals.announcementHeadline, Str(<<"Y","e","s">>))
           ELSE Str(<<"N","o">>)
      [] OTHER -> value

\* formatParsedData(parsed)
formatParsedData(parsed) ==
    [n \in SectionNames |->
        [label \in DOMAIN FormattedFields[n] |->
            FormattedEntry(parsed.corporateSignals, FormattedFields[n][label],
                           parsed[n][FormattedFields[n][label]])]]

\* The lines printFormattedOutput writes: printKV(label, flat[label])
PrintedEntries(flat) ==
    [n \in SectionNames |-> [label \in DOMAIN flat[n] |-> format(flat[n][label])]]

\* The record is shown: App.jsx takes formatParsedData(parsed), the
\* command line prints flattenParsedData(parsed) entry by entry.
Present ==
    /\ pc = "returned"
    /\ display' = IF web THEN formatParsedData(result)
                  ELSE PrintedEntries(flattenParsedData(result))
    /\ pc' = "shown"
    /\ UNCHANGED <<web, rawText, sections, result, error, numVars, callVars,
                   nseVars,
                   appVars>>

\* A return on equity of nought.
LineRoeZero == <<"R","O","E","\n","0"," ","%">>

DisplayTexts ==
    {JoinLines(q) : q \in ArrangementsUpTo(ValuationLines, 2)}
    \cup {PageFull, PageOther, RowPromoters, RowPromotersSpaced,
          JoinLines(<<LineRoe, LinePE>>), LineRoeZero}

InitDisplay ==
    /\ NumIdle
    /\ FirstCall
    /\ AppIdle
    /\ NseIdle
    /\ web \in BOOLEAN
    /\ rawText \in {Str(t) : t \in DisplayTexts}
    /\ pc = "validate"
    /\ priceVolume = Unset /\ valuation = Unset /\ financialStrength = Unset
    /\ growth = Unset /\ shareholding = Unset /\ corporateSignals = Unset
    /\ result = Unset
    /\ error = Unset

NextDisplay ==
    \/ Validate
    \/ PriceVolumeStep
    \/ ValuationStep
    \/ FinancialStrengthStep
    \/ GrowthStep
    \/ ShareholdingStep
    \/ CorporateSignalsStep
    \/ Return
    \/ Present

SpecDisplay == InitDisplay /\ [][NextDisplay]_vars

\* ------------------------------------------- parseIndianNumber on its own

InitNumber ==
    /\ ParseIdle
    /\ FirstCall
    /\ AppIdle
    /\ NseIdle
    /\ numArg \in NumberArgs
    /\ numRes = Unset
    /\ numPc = "call"

CallParseIndianNumber ==
    /\ numPc = "call"
    /\ numRes' = parseIndianNumber(numArg)
    /\ numPc' = "returned"
    /\ UNCHANGED <<numArg, parseVars, callVars, nseVars, display,
                   appVars>>

NextNumber == CallParseIndianNumber

SpecNumber == InitNumber /\ [][NextNumber]_vars

\* ----------------------------------------------------- the Yahoo client
\* yahooClient.js.  The numbers of a chart are whole or have one decimal
\* and stay below twenty million, so that the arithmetic below is exact.

\* symbol.toUpperCase()
ToUpperCase(s) ==
    [i \in 1..Len(s) |->
        IF \E j \in 1..26 : LowerCase[j] = s[i] THEN OtherCase(s[i]) ELSE s[i]]

EndsWithNS(s) == Len(s) >= 3 /\ SubSeq(s, Len(s) - 2, Len(s)) = <<".","N","S">>

\* The symbol with its ".NS" suffix.
YahooSymbol(symbol) ==
    IF EndsWithNS(ToUpperCase(symbol)) THEN ToUpperCase(symbol)
    ELSE ToUpperCase(symbol) \o <<".","N","S">>

\* a divided by b, rounded to the nearest whole number.
RoundDiv(a, b) == (a + b \div 2) \div b

\* The whole number nearest to v * 100 / d, for v >= 0.
Hundredths(v, d) ==
    IF v.x >= 0 THEN RoundDiv(v.m * Pow10(v.x) * 100, d)
    ELSE RoundDiv(v.m * 100, d * Pow10(-v.x))

\* n hundredths written with two decimals.
TwoDecimals(n) ==
    IntToChars(n \div 100) \o <<".", DigitChar((n % 100) \div 10), DigitChar(n % 10)>>

\* (v / d).toFixed(2)
ToFixed2(v, d) ==
    IF v.k = "inf"
    THEN (IF v.m < 0 THEN <<"-">> ELSE <<>>) \o <<"I","n","f","i","n","i","t","y">>
    ELSE TwoDecimals(Hundredths(v, d))

\* v >= n, for a number v >= 0 and a whole number n
AtLeast(v, n) == v.k = "inf" \/ Hundredths(v, 1) >= n * 100

\* The numbers of an array that are not null.
NotNulls(array) == {array[i] : i \in {j \in 1..Len(array) : array[j] # Null}}

\* Math.max(...numbers) and Math.min(...numbers) of whole numbers: the
\* infinities when there is none.
MathMax(numbers) ==
    IF numbers = {} THEN Infinity(-1)
    ELSE CHOOSE a \in numbers :
            \A b \in numbers : Hundredths(b, 1) <= Hundredths(a, 1)
MathMin(numbers) ==
    IF numbers = {} THEN Infinity(1)
    ELSE CHOOSE a \in numbers :
            \A b \in numbers : Hundredths(a, 1) <= Hundredths(b, 1)

RECURSIVE SumOf(_)
\* array.reduce((a, b) => (a || 0) + (b || 0), 0), of whole numbers
SumOf(array) ==
    IF array = <<>> THEN 0
    ELSE (IF Truthy(Head(array)) THEN Head(array).m * Pow10(Head(array).x) ELSE 0)
         + SumOf(Tail(array))

\* meta.regularMarketDayHigh || (quote.high ? Math.max(...) : null)
DayHigh(chart) ==
    OrElse(chart.meta.regularMarketDayHigh,
           IF Truthy(chart.quote.high) THEN MathMax(NotNulls(chart.quote.high.items))
           ELSE Null)
DayLow(chart) ==
    OrElse(chart.meta.regularMarketDayLow,
           IF Truthy(chart.quote.low) THEN MathMin(NotNulls(chart.quote.low.items))
           ELSE Null)
\* meta.regularMarketVolume || (quote.volume ? quote.volume.reduce(...) : null)
Volume(chart) ==
    OrElse(chart.meta.regularMarketVolume,
           IF Truthy(chart.quote.volume) THEN Num(SumOf(chart.quote.volume.items), 0)
           ELSE Null)
\* meta.averageDailyVolume10Day || null
AvgVolume(chart) == OrElse(chart.meta.averageDailyVolume10Day, Null)

\* What fetchYahooData has of the chart when it asks for the summary.
ChartFields(chart, yahooSymbol) ==
    [dayHigh |-> DayHigh(chart), dayLow |-> DayLow(chart), volume |-> Volume(chart),
     avgVolume10d |-> AvgVolume(chart), symbol |-> yahooSymbol]

\* return { dayHigh, dayLow, volume, avgVolume10d: avgVolume, debtToEquity,
\*          source: "Yahoo Finance", symbol: yahooSymbol }
YahooRecord(fields, debtToEquity) ==
    [dayHigh |-> fields.dayHigh, dayLow |-> fields.dayLow, volume |-> fields.volume,
     avgVolume10d |-> fields.avgVolume10d, debtToEquity |-> debtToEquity,
     source |-> "Yahoo Finance", symbol |-> fields.symbol]

\* catch (error) { return { dayHigh: null, ..., error: error.message,
\*                          source: "Yahoo Finance" } }
YahooErrorRecord(message) ==
    [dayHigh |-> Null, dayLow |-> Null, volume |-> Null, avgVolume10d |-> Null,
     debtToEquity |-> Null, error |-> message, source |-> "Yahoo Finance"]

\* formatVolume(volume)
formatVolume(volume) ==
    IF volume \in {Null, Undefined} THEN Null
    ELSE IF AtLeast(volume, 10000000) THEN Str(ToFixed2(volume, 10000000) \o <<" ","C","r">>)
    ELSE IF AtLeast(volume, 100000) THEN Str(ToFixed2(volume, 100000) \o <<" ","L">>)
    ELSE IF AtLeast(volume, 1000) THEN Str(ToFixed2(volume, 1000) \o <<" ","K">>)
    ELSE Str(NumberToString(volume))

HasError(yahooData) == "error" \in DOMAIN yahooData /\ yahooData.error # ""

\* formatYahooData(yahooData) when yahooData.error is not set
FormattedYahoo(yahooData) ==
    [dayHighLow |->
        IF Truthy(yahooData.dayHigh) /\ Truthy(yahooData.dayLow)
        THEN Str(<<Rupee>> \o ToFixed2(yahooData.dayHigh, 1) \o <<" ","/"," ">>
                 \o <<Rupee>> \o ToFixed2(yahooData.dayLow, 1))
        ELSE Null,
     volumeToday |-> formatVolume(yahooData.volume),
     avgVolume10d |-> formatVolume(yahooData.avgVolume10d),
     debtToEquity |->
        IF yahooData.debtToEquity # Null
        THEN Str(ToFixed2(yahooData.debtToEquity, 1))
        ELSE Null]

\* formatYahooData(yahooData): the entries "Day High / Low",
\* "Volume (today)", "10-day Avg Volume" and "Debt to Equity"
formatYahooData(yahooData) ==
    IF HasError(yahooData)
    THEN [dayHighLow |-> NA, volumeToday |-> NA, avgVolume10d |-> NA,
          debtToEquity |-> NA]
    ELSE FormattedYahoo(yahooData)

\* ------------------------------------------------------------ the App
\* App.jsx.  handleExtract runs from a click to its await of
\* fetchYahooData without anything else running in between, and so does
\* each run from one await of fetchYahooData to the next; when
\* fetchYahooData returns, the rest of handleExtract follows at once.  No
\* text that passes the check of handleExtract makes parseScreenerText
\* throw, so the catch of line 59 has no run.

Arr(items) == [k |-> "array", m |-> 0, x |-> 0, s |-> <<>>, items |-> items]

\* chartData.chart.result[0]: one with the day's figures in meta, one with
\* them in the quote arrays only, one with neither, one whose arrays hold
\* null only.
NoMeta ==
    [regularMarketDayHigh |-> Undefined, regularMarketDayLow |-> Undefined,
     regularMarketVolume |-> Undefined, averageDailyVolume10Day |-> Undefined]
NoQuote == [high |-> Undefined, low |-> Undefined, volume |-> Undefined]
ChartFromMeta ==
    [meta |-> [regularMarketDayHigh |-> Num(9505, -1), regularMarketDayLow |-> Num(930, 0),
               regularMarketVolume |-> Num(2100000, 0),
               averageDailyVolume10Day |-> Num(12500000, 0)],
     quote |-> NoQuote]
ChartFromQuote ==
    [meta |-> NoMeta,
     quote |-> [high |-> Arr(<<Num(950, 0), Null, Num(960, 0)>>),
                low |-> Arr(<<Num(940, 0), Null, Num(931, 0)>>),
                volume |-> Arr(<<Num(1200, 0), Null, Num(300, 0)>>)]]
ChartBare == [meta |-> NoMeta, quote |-> NoQuote]
ChartOfNulls ==
    [meta |-> NoMeta,
     quote |-> [high |-> Arr(<<Null>>), low |-> Arr(<<Null>>), volume |-> Arr(<<Null>>)]]
ChartResults == {ChartFromMeta, ChartFromQuote, ChartBare, ChartOfNulls}

\* ...financialData?.debtToEquity?.raw
DebtToEquityRaws == {Undefined, Num(0, 0), Num(85, -2)}

\* What the user has pasted and what the stock code field holds.
AppTexts == {<<>>, <<" ">>, LinePrice, LineRoeZero}
AppCodes == {<<>>, <<"h","d","f","c","b","a","n","k">>, <<"I","N","F","Y",".","N","S">>}

\* The messages of the errors of the chart request.
RequestErrors == {"Failed to fetch", "Yahoo API error: 404", "Yahoo API error: 500"}
BodyErrors == {"Unexpected end of JSON input", "No data returned from Yahoo Finance"}

\* parseScreenerText of format.js on a text that passes its check, and
\* formatParsedData of what it returns
ParsedInApp(text) ==
    [priceVolume |-> extractPriceVolume(text, TRUE),
     valuation |-> extractValuation(text, TRUE),
     financialStrength |-> extractFinancialStrength(text, TRUE),
     growth |-> extractGrowth(text, TRUE),
     shareholding |-> extractShareholding(text),
     corporateSignals |-> extractCorporateSignals(text, TRUE)]
FormattedInApp(text) == formatParsedData(ParsedInApp(text))

\* { ...prev, yahoo: formattedYahoo }: spreading null gives no members
SpreadWithYahoo(prev, formattedYahoo) ==
    IF prev = Null THEN [yahoo |-> formattedYahoo]
    ELSE [prev EXCEPT !.yahoo = formattedYahoo]

\* handleExtract, lines 18-25: the text is blank
ExtractBlank(i) ==
    /\ appOutput' = Null
    /\ appError' = "Please paste screener.in content"
    /\ calls' = [calls EXCEPT ![i] = [NoCall EXCEPT !.pc = "ended"]]
    /\ UNCHANGED <<appLoading, yahooLoading>>

\* lines 27-58 up to the await: the record is shown, and the chart is
\* requested if there is a stock code
ExtractText(i, text, code) ==
    /\ appError' = Null
    /\ appOutput' = [screener |-> FormattedInApp(text), yahoo |-> Null]
    /\ appLoading' = FALSE
    /\ yahooLoading' = (yahooLoading \/ Trim(code) # <<>>)
    /\ calls' = [calls EXCEPT ![i] =
                    IF Trim(code) = <<>>
                    THEN [NoCall EXCEPT !.pc = "ended", !.text = text]
                    ELSE [NoCall EXCEPT !.pc = "chart", !.text = text,
                                        !.chart = "pending",
                                        !.fields = [symbol |-> YahooSymbol(Trim(code))]]]

\* The user sets the two fields and clicks Extract.
ClickExtract(text, code) ==
    /\ clicks < MaxClicks
    /\ ~appLoading
    /\ clicks' = clicks + 1
    /\ IF Trim(text) = <<>> THEN ExtractBlank(clicks + 1)
       ELSE ExtractText(clicks + 1, text, code)
    /\ UNCHANGED <<numVars, parseVars, callVars, nseVars, display>>

\* fetchYahooData returns yahooData and handleExtract goes on, lines 48-57
YahooReturns(i, chart, summary, yahooData) ==
    /\ calls' = [calls EXCEPT ![i].pc = "finished", ![i].chart = chart,
                              ![i].summary = summary, ![i].yahoo = yahooData]
    /\ appOutput' = SpreadWithYahoo(appOutput, formatYahooData(yahooData))
    /\ yahooLoading' = FALSE
    /\ UNCHANGED <<appError, appLoading, clicks,
                   numVars, parseVars, callVars, nseVars, display>>

\* await fetch(chartUrl) rejects, or the response is not ok
ChartRequestFails(i, message) ==
    /\ calls[i].pc = "chart"
    /\ YahooReturns(i, "failed", "none", YahooErrorRecord(message))

\* the response is ok: await chartResponse.json()
ChartResponds(i) ==
    /\ calls[i].pc = "chart"
    /\ calls' = [calls EXCEPT ![i].pc = "chartJson"]
    /\ UNCHANGED <<appOutput, appError, appLoading, yahooLoading, clicks,
                   numVars, parseVars, callVars, nseVars, display>>

\* json() rejects, or the data holds no result
ChartBodyFails(i, message) ==
    /\ calls[i].pc = "chartJson"
    /\ YahooReturns(i, "failed", "none", YahooErrorRecord(message))

\* the data holds a result: the summary is requested
ChartBodyArrives(i, chart) ==
    /\ calls[i].pc = "chartJson"
    /\ calls' = [calls EXCEPT ![i].pc = "summary", ![i].chart = "ok",
                              ![i].summary = "pending",
                              ![i].fields = ChartFields(chart, calls[i].fields.symbol)]
    /\ UNCHANGED <<appOutput, appError, appLoading, yahooLoading, clicks,
                   numVars, parseVars, callVars, nseVars, display>>

\* A fetchYahooData without the try of its own around the summary request.
SummaryRequestFailsUncaught(i) ==
    /\ calls[i].pc = "summary"
    /\ YahooReturns(i, "ok", "failed", YahooErrorRecord("Failed to fetch"))

\* await fetch(summaryUrl) rejects and is caught, or the response is not ok
SummaryRequestFails(i) ==
    /\ calls[i].pc = "summary"
    /\ YahooReturns(i, "ok", "failed", YahooRecord(calls[i].fields, Null))

\* the response is ok: await summaryResponse.json()
SummaryResponds(i) ==
    /\ calls[i].pc = "summary"
    /\ calls' = [calls EXCEPT ![i].pc = "summaryJson"]
    /\ UNCHANGED <<appOutput, appError, appLoading, yahooLoading, clicks,
                   numVars, parseVars, callVars, nseVars, display>>

\* json() rejects and is caught
SummaryBodyFails(i) ==
    /\ calls[i].pc = "summaryJson"
    /\ YahooReturns(i, "ok", "failed", YahooRecord(calls[i].fields, Null))

\* debtToEquity = ...debtToEquity?.raw || null
SummaryBodyArrives(i, debt) ==
    /\ calls[i].pc = "summaryJson"
    /\ YahooReturns(i, "ok", "ok", YahooRecord(calls[i].fields, OrElse(debt, Null)))

InitApp ==
    /\ NumIdle
    /\ ParseIdle
    /\ FirstCall
    /\ AppIdle
    /\ NseIdle

NextApp ==
    \/ \E text \in AppTexts, code \in AppCodes : ClickExtract(text, code)
    \/ \E i \in 1..MaxClicks, message \in RequestErrors : ChartRequestFails(i, message)
    \/ \E i \in 1..MaxClicks : ChartResponds(i)
    \/ \E i \in 1..MaxClicks, message \in BodyErrors : ChartBodyFails(i, message)
    \/ \E i \in 1..MaxClicks, chart \in ChartResults : ChartBodyArrives(i, chart)
    \/ \E i \in 1..MaxClicks : SummaryRequestFails(i)
    \/ \E i \in 1..MaxClicks : SummaryResponds(i)
    \/ \E i \in 1..MaxClicks : SummaryBodyFails(i)
    \/ \E i \in 1..MaxClicks, debt \in DebtToEquityRaws : SummaryBodyArrives(i, debt)

SpecApp == InitApp /\ [][NextApp]_vars

\* ------------------------------------------------------- the NSE session
\* nseClient.js.  An asynchronous function runs from one await to the next
\* without another one running in between; each action below is such a run.

\* The most homepage requests followed, and the most calls of resetSession.
MaxHomepage == 3
MaxResets == 1

SetPc(p, position) == [nsePc EXCEPT ![p] = position]
Printed(p, lines) == [out EXCEPT ![p] = out[p] \o lines]

\* initNSE up to its first await: if (initialized) return; otherwise the
\* homepage is requested and the answer awaited.
AfterInitCheck == IF initialized THEN "initReturned" ELSE "awaitHomepage"
HomepageSent == IF initialized THEN 0 ELSE 1

\* A program that uses the library calls initNSE, directly or through a
\* fetcher of nseData.js.
CallerCallsInitNSE(c) ==
    /\ nsePc[c] = "idle"
    /\ initialized \/ homepage < MaxHomepage
    /\ nsePc' = SetPc(c, AfterInitCheck)
    /\ homepage' = homepage + HomepageSent
    /\ UNCHANGED <<initialized, resets, out, quoteHeaderPrinted, raw, apiVars,
                   numVars, parseVars, callVars, display,
                   appVars>>

\* await client.get("https://www.nseindia.com", ...) resolves
HomepageResponds(p) ==
    /\ nsePc[p] = "awaitHomepage"
    /\ nsePc' = SetPc(p, "awaitDelay")
    /\ answered' = answered + 1
    /\ UNCHANGED <<initialized, homepage, resets, out, quoteHeaderPrinted, raw,
                   requests, thrown,
                   numVars, parseVars, callVars, display,
                   appVars>>

\* An initNSE that swallows the rejection and returns.
HomepageFailsQuietly(p) ==
    /\ nsePc[p] = "awaitHomepage"
    /\ nsePc' = SetPc(p, "initReturned")
    /\ UNCHANGED <<initialized, homepage, resets, out, quoteHeaderPrinted, raw, apiVars,
                   numVars, parseVars, callVars, display,
                   appVars>>

\* ... or rejects (blocked, timed out): initNSE throws
HomepageFails(p) ==
    /\ nsePc[p] = "awaitHomepage"
    /\ nsePc' = SetPc(p, "initThrew")
    /\ UNCHANGED <<initialized, homepage, resets, out, quoteHeaderPrinted, raw, apiVars,
                   numVars, parseVars, callVars, display,
                   appVars>>

\* await delay(1000); initialized = true;
DelayElapses(p) ==
    /\ nsePc[p] = "awaitDelay"
    /\ initialized' = TRUE
    /\ nsePc' = SetPc(p, "initReturned")
    /\ UNCHANGED <<homepage, resets, out, quoteHeaderPrinted, raw, apiVars,
                   numVars, parseVars, callVars, display,
                   appVars>>

\* The caller has its answer and may call again.
CallerResumes(c) ==
    /\ nsePc[c] \in {"initReturned", "initThrew"}
    /\ nsePc' = SetPc(c, "idle")
    /\ UNCHANGED <<initialized, homepage, resets, out, quoteHeaderPrinted, raw, apiVars,
                   numVars, parseVars, callVars, display,
                   appVars>>

\* resetSession(): initialized = false
ResetSession ==
    /\ resets < MaxResets
    /\ initialized' = FALSE
    /\ resets' = resets + 1
    /\ UNCHANGED <<homepage, nsePc, out, quoteHeaderPrinted, raw, apiVars,
                   numVars, parseVars, callVars, display,
                   appVars>>

InitNse ==
    /\ NumIdle
    /\ ParseIdle
    /\ FirstCall
    /\ AppIdle
    /\ NoRequests
    /\ initialized = FALSE /\ homepage = 0 /\ resets = 0
    /\ nsePc = [p \in AllProcs |-> IF p \in Callers THEN "idle" ELSE "off"]
    /\ out = [p \in AllProcs |-> <<>>]
    /\ quoteHeaderPrinted = FALSE
    /\ raw = FALSE

NextNse ==
    \/ \E c \in Callers : CallerCallsInitNSE(c)
    \/ \E c \in Callers : HomepageResponds(c)
    \/ \E c \in Callers : HomepageFails(c)
    \/ \E c \in Callers : DelayElapses(c)
    \/ \E c \in Callers : CallerResumes(c)
    \/ ResetSession

SpecNse == InitNse /\ [][NextNse]_vars

\* ----------------------------------------------------------- the NSE CLI
\* index.js.  A line printed is the pair of its kind and its label.

Section(title) == <<"section", title>>
KV(label) == <<"kv", label>>
\* printApiError(apiName, err): `${apiName} failed: ...`
Failed(apiName) == <<"failed", apiName>>

\* if (RAW) { printSection("RAW ..."); console.log(JSON.stringify(...)) }
RawLines(title) == IF raw THEN <<Section(title), <<"json", title>>>> ELSE <<>>

\* A printQuoteField that prints the header whenever its task begins.
QuoteHeaderAlways == <<Section("Quote")>>

\* printQuoteField: the header goes before the first field printed
QuoteHeader == IF quoteHeaderPrinted THEN <<>> ELSE <<Section("Quote")>>

QuoteFields == <<KV("CMP"), KV("Day High"), KV("Day Low"), KV("52W High"),
                 KV("52W Low"), KV("Market Cap"), KV("P/E (standalone)"),
                 KV("Face Value")>>
TradeInfoFields == <<KV("Today Volume"), KV("Deliverable %"), KV("Volatility")>>

\* What a task prints of a response; useful is
\* t.volume || t.deliverablePct || t.volatility.
ResultLines(t, useful) ==
    CASE t = "quote-equity" ->
           RawLines("RAW quote-equity") \o QuoteHeader \o QuoteFields
      [] t = "trade_info" ->
           RawLines("RAW trade_info")
           \o (IF useful THEN QuoteHeader \o TradeInfoFields ELSE <<>>)
      [] t = "corporate-actions" ->
           RawLines("RAW corporate-actions")
           \o <<Section("Corporate Actions"), KV("Latest")>>
      [] t = "announcements" ->
           RawLines("RAW announcements")
           \o <<Section("Announcements"), KV("Headline")>>
      [] t = "shareholding" ->
           RawLines("RAW shareholding") \o <<Section("Shareholding"), KV("Data")>>

PrintsQuoteField(t, useful) ==
    t = "quote-equity" \/ (t = "trade_info" /\ useful)

\* The URLs each fetcher of nseData.js requests, in its order, by the path
\* after BASE_URL.
Endpoints(t) ==
    CASE t = "quote-equity" -> <<"quote-equity">>
      [] t = "trade_info" -> <<"quote-equity&section">>
      [] t = "corporate-actions" -> <<"corporates-corporateActions">>
      [] t = "announcements" -> <<"corporate-announcements">>
      [] t = "shareholding" -> <<"corporate-share-holdings", "shareholding-pattern">>

\* The statuses a failed request comes back with, as String(err.status)
\* gives them; the empty string is no response at all.
Statuses == {<<"4","0","4">>, <<"4","0","3">>, <<"5","0","0">>, <<>>}

\* A failed request: its status, and whether the text of the response,
\* which getErrorReason copies into the reason, holds "status=404".
Failures ==
    {f \in [status : Statuses, reasonSays404 : BOOLEAN] :
        f.status = <<>> => ~f.reasonSays404}

\* createNseError(err, url): the message is
\* `Request failed | status=${status} | reason=${reason}`
MessageSays404(err) == err.status = <<"4","0","4">> \/ err.reasonSays404
NseError(failure, url) ==
    [status |-> failure.status, reasonSays404 |-> failure.reasonSays404, url |-> url]

\* is4xxError(err): status.startsWith("4") || msg.includes("status=404")
Is4xxError(err) ==
    \/ Len(err.status) > 0 /\ err.status[1] = "4"
    \/ MessageSays404(err)

\* main() up to its first await: console.log, then initNSE()
MainCallsInitNSE ==
    /\ nsePc["main"] = "start"
    /\ nsePc' = SetPc("main", AfterInitCheck)
    /\ homepage' = homepage + HomepageSent
    /\ out' = Printed("main", << <<"log", "Fetching data">> >>)
    /\ UNCHANGED <<initialized, resets, quoteHeaderPrinted, raw, apiVars,
                   numVars, parseVars, callVars, display,
                   appVars>>

\* catch (err) { printApiError("initNSE", err); process.exit(1); }
MainCatches ==
    /\ nsePc["main"] = "initThrew"
    /\ out' = Printed("main", <<Failed("initNSE")>>)
    /\ nsePc' = SetPc("main", "exited")
    /\ UNCHANGED <<initialized, homepage, resets, quoteHeaderPrinted, raw, apiVars,
                   numVars, parseVars, callVars, display,
                   appVars>>

\* const tasks = [fetchAndPrintQuote(), ...]: each runs up to the
\* await initNSE() of its fetcher; then await Promise.allSettled(tasks)
MainLaunches ==
    /\ nsePc["main"] = "initReturned"
    /\ nsePc' = [p \in AllProcs |->
                   IF p \in Tasks THEN AfterInitCheck
                   ELSE IF p = "main" THEN "awaitTasks" ELSE nsePc[p]]
    /\ homepage' = homepage + Cardinality(Tasks) * HomepageSent
    /\ UNCHANGED <<initialized, resets, out, quoteHeaderPrinted, raw, apiVars,
                   numVars, parseVars, callVars, display,
                   appVars>>

\* return fetchNSE(url): the request is sent
TaskFetches(t) ==
    /\ nsePc[t] = "initReturned"
    /\ nsePc' = SetPc(t, "awaitFetch")
    /\ requests' = [requests EXCEPT ![t] = <<Endpoints(t)[1]>>]
    /\ UNCHANGED <<initialized, homepage, resets, out, quoteHeaderPrinted, raw,
                   answered, thrown,
                   numVars, parseVars, callVars, display,
                   appVars>>

\* The response arrives and the task prints what it holds.
FetchSucceeds(t, useful) ==
    /\ nsePc[t] \in {"awaitFetch", "awaitFetch2"}
    /\ out' = Printed(t, ResultLines(t, useful))
    /\ quoteHeaderPrinted' = (quoteHeaderPrinted \/ PrintsQuoteField(t, useful))
    /\ nsePc' = SetPc(t, "printed")
    /\ thrown' = [thrown EXCEPT ![t] = Unset]
    /\ UNCHANGED <<initialized, homepage, resets, raw,
                   requests, answered,
                   numVars, parseVars, callVars, display,
                   appVars>>

\* fetchShareholdingBestEffort goes on to its next URL after an error that
\* is4xxError takes for a 4xx; every other fetcher has one URL and no loop.
TriesNext(t, failure) ==
    /\ t = "shareholding"
    /\ Is4xxError(failure)
    /\ Len(requests[t]) < Len(Endpoints(t))

\* The request fails: fetchNSE throws createNseError(err, url), and the
\* fetcher requests its next URL or throws the error on.  thrown is err,
\* which fetchShareholdingBestEffort keeps as lastError.
FetchFails(t, failure) ==
    /\ nsePc[t] \in {"awaitFetch", "awaitFetch2"}
    /\ nsePc' = SetPc(t, IF TriesNext(t, failure) THEN "awaitFetch2" ELSE "fetchThrew")
    /\ requests' = [requests EXCEPT ![t] =
                       IF TriesNext(t, failure)
                       THEN Append(requests[t], Endpoints(t)[Len(requests[t]) + 1])
                       ELSE requests[t]]
    /\ thrown' = [thrown EXCEPT ![t] = NseError(failure, requests[t][Len(requests[t])])]
    /\ UNCHANGED <<initialized, homepage, resets, out, quoteHeaderPrinted, raw,
                   answered,
                   numVars, parseVars, callVars, display,
                   appVars>>

\* A catch that ends the program as the one of main does.
TaskCatchesAndExits(t) ==
    /\ nsePc[t] \in {"initThrew", "fetchThrew"}
    /\ out' = Printed(t, <<Failed(t)>>)
    /\ thrown' = [thrown EXCEPT ![t] = Unset]
    /\ nsePc' = [p \in AllProcs |->
                   IF p \in Tasks \cup {"main"} THEN "exited" ELSE nsePc[p]]
    /\ UNCHANGED <<initialized, homepage, resets, quoteHeaderPrinted, raw,
                   requests, answered,
                   numVars, parseVars, callVars, display,
                   appVars>>

\* catch (err) { printApiError("quote-equity", err); } and its like
TaskCatches(t) ==
    /\ nsePc[t] \in {"initThrew", "fetchThrew"}
    /\ out' = Printed(t, <<Failed(t)>>)
    /\ thrown' = [thrown EXCEPT ![t] = Unset]
    /\ nsePc' = SetPc(t, "reported")
    /\ UNCHANGED <<initialized, homepage, resets, quoteHeaderPrinted, raw,
                   requests, answered,
                   numVars, parseVars, callVars, display,
                   appVars>>

Settled(t) == nsePc[t] \in {"printed", "reported"}

\* await Promise.allSettled(tasks) resolves; main returns
MainCompletes ==
    /\ nsePc["main"] = "awaitTasks"
    /\ \A t \in Tasks : Settled(t)
    /\ nsePc' = SetPc("main", "done")
    /\ UNCHANGED <<initialized, homepage, resets, out, quoteHeaderPrinted, raw, apiVars,
                   numVars, parseVars, callVars, display,
                   appVars>>

InitCli ==
    /\ NumIdle
    /\ ParseIdle
    /\ FirstCall
    /\ AppIdle
    /\ NoRequests
    /\ initialized = FALSE /\ homepage = 0 /\ resets = 0
    /\ nsePc = [p \in AllProcs |-> IF p = "main" THEN "start" ELSE "off"]
    /\ out = [p \in AllProcs |-> <<>>]
    /\ quoteHeaderPrinted = FALSE
    /\ raw \in BOOLEAN

NextCli ==
    \/ MainCallsInitNSE
    \/ \E p \in {"main"} \cup Tasks : HomepageResponds(p)
    \/ \E p \in {"main"} \cup Tasks : HomepageFails(p)
    \/ \E p \in {"main"} \cup Tasks : DelayElapses(p)
    \/ MainCatches
    \/ MainLaunches
    \/ \E t \in Tasks : TaskFetches(t)
    \/ \E t \in Tasks, useful \in BOOLEAN : FetchSucceeds(t, useful)
    \/ \E t \in Tasks, failure \in Failures : FetchFails(t, failure)
    \/ \E t \in Tasks : TaskCatches(t)
    \/ MainCompletes

SpecCli == InitCli /\ [][NextCli]_vars

\* ------------------------------------------- the fetchers without index.js
\* A program that calls the fetchers of nseData.js itself, each at most
\* once and side by side, with no warm-up of its own before them; the call
\* of a fetcher is the call of initNSE it begins with.

\* The most fetchers the program calls.
MaxFetchers == 3

FetcherCalled(t) ==
    /\ Cardinality({u \in Tasks : nsePc[u] # "idle"}) < MaxFetchers
    /\ CallerCallsInitNSE(t)

\* return fetchNSE(url) resolves: the fetcher returns resp.data
FetcherResolves(t) ==
    /\ nsePc[t] \in {"awaitFetch", "awaitFetch2"}
    /\ nsePc' = SetPc(t, "resolved")
    /\ thrown' = [thrown EXCEPT ![t] = Unset]
    /\ UNCHANGED <<initialized, homepage, resets, out, quoteHeaderPrinted, raw,
                   requests, answered,
                   numVars, parseVars, callVars, display,
                   appVars>>

InitFetch ==
    /\ NumIdle
    /\ ParseIdle
    /\ FirstCall
    /\ AppIdle
    /\ NoRequests
    /\ initialized = FALSE /\ homepage = 0 /\ resets = 0
    /\ nsePc = [p \in AllProcs |-> IF p \in Tasks THEN "idle" ELSE "off"]
    /\ out = [p \in AllProcs |-> <<>>]
    /\ quoteHeaderPrinted = FALSE
    /\ raw = FALSE

NextFetch ==
    \/ \E t \in Tasks : FetcherCalled(t)
    \/ \E t \in Tasks : HomepageResponds(t)
    \/ \E t \in Tasks : HomepageFails(t)
    \/ \E t \in Tasks : DelayElapses(t)
    \/ \E t \in Tasks : TaskFetches(t)
    \/ \E t \in Tasks : FetcherResolves(t)
    \/ \E t \in Tasks, failure \in Failures : FetchFails(t, failure)
    \/ ResetSession

SpecFetch == InitFetch /\ [][NextFetch]_vars

\* ------------------------------------------------- the shape of the record

\* The fields of the six section records of screenerParser.js.
PriceVolumeKeys == {"cmp", "dayHighLow", "week52HighLow", "week52High",
                    "week52Low", "volumeToday", "avgVolume10d"}
ValuationKeys == {"peRatio", "industryPE", "pbRatio", "bookValue", "faceValue"}
FinancialStrengthKeys == {"marketCap", "debtToEquity", "epsTTM", "roe", "roce"}
GrowthKeys == {"revenueGrowthYoY", "profitGrowthYoY", "operatingMargin"}
ShareholdingKeys == {"promoter", "promoterChange", "fii", "dii", "public"}
CorporateSignalsKeys == {"upcomingResultDate", "recentCorporateAction",
                         "recentAnnouncement", "announcementHeadline"}

\* The fields of the section records of the parser of format.js.
WebPriceVolumeKeys == {"cmp", "week52HighLow", "week52High", "week52Low"}
WebValuationKeys == {"peRatio", "pbRatio", "bookValue", "faceValue"}
WebFinancialStrengthKeys == {"marketCap", "epsTTM", "roe", "roce"}
WebCorporateSignalsKeys == {"upcomingResultDate", "recentCorporateAction",
                            "hasAnnouncement", "announcementHeadline"}

\* The fields of a section, by its name and the parser.
FieldNames ==
    [variant \in BOOLEAN |->
        [priceVolume |-> IF variant THEN WebPriceVolumeKeys ELSE PriceVolumeKeys,
         valuation |-> IF variant THEN WebValuationKeys ELSE ValuationKeys,
         financialStrength |-> IF variant THEN WebFinancialStrengthKeys
                               ELSE FinancialStrengthKeys,
         growth |-> GrowthKeys,
         shareholding |-> ShareholdingKeys,
         corporateSignals |-> IF variant THEN WebCorporateSignalsKeys
                              ELSE CorporateSignalsKeys]]

\* The number of leaf fields of the six section shapes.
SchemaTotal ==
    Cardinality(PriceVolumeKeys) + Cardinality(ValuationKeys)
    + Cardinality(FinancialStrengthKeys) + Cardinality(GrowthKeys)
    + Cardinality(ShareholdingKeys) + Cardinality(CorporateSignalsKeys)

\* ------------------------------------------------------ texts, described

\* word stands in text at position i, letters in either case.
OccursAt(text, i, word) ==
    /\ i + Len(word) - 1 <= Len(text)
    /\ \A k \in 1..Len(word) : text[i + k - 1] \in {word[k], OtherCase(word[k])}

Contains(text, word) == \E i \in 1..Len(text) : OccursAt(text, i, word)

\* fragment stands in text at position i, character for character.
StandsAt(text, i, fragment) ==
    /\ i + Len(fragment) - 1 <= Len(text)
    /\ \A k \in 1..Len(fragment) : text[i + k - 1] = fragment[k]

Holds(text, fragment) == \E i \in 1..Len(text) : StandsAt(text, i, fragment)

\* A non-empty string.
NonEmptyString(v) == v.k = "str" /\ Len(v.s) > 0

\* The leaf fields of the six sections made so far, as <<section, field>>.
LeafPaths == UNION {{<<s, f>> : f \in DOMAIN SectionsObject[s]} : s \in SectionNames}
\* Those that hold a value: neither null nor "N/A".
HeldPaths(paths) == {p \in paths : SectionsObject[p[1]][p[2]] \notin {Null, NA}}

\* The completeness summary of the record returned by screenerParser.js.
Summary == result["_meta"].dataPoints

Returned == pc = "returned"
ReturnedCli == pc = "returned" /\ ~web

\* ------------------------------------------------------------------- C1

\* C1: parseScreenerText throws, and throws its one explicit error, exactly
\* when rawText is empty or no string; for every non-empty string the call
\* goes through the six extractors, none of which raises, and returns a
\* record that has all six sections.
C1_FailsExactlyOnInvalidInput ==
    /\ pc = "threw" => error = InvalidInput /\ ~NonEmptyString(rawText)
    /\ pc \notin {"validate", "threw"} => NonEmptyString(rawText) /\ error = Unset
    /\ Returned => SectionNames \subseteq DOMAIN result
                   /\ \A s \in SectionNames : result[s] = SectionsObject[s]

\* A string of white space alone, and a text with no data, are parsed.
C1_Witness ==
    /\ Returned
    /\ rawText \in {Str(<<" ">>), Str(<<"n","o"," ","d","a","t","a">>)}
    /\ priceVolume.cmp = Null

\* ------------------------------------------------------------------- C2

\* C2: in every record returned, 0 <= extracted <= total, and total is the
\* number of leaf fields of the six section shapes, whatever the text.
C2_ExtractedWithinTotal ==
    ReturnedCli =>
        /\ 0 <= Summary.extracted
        /\ Summary.extracted <= Summary.total
        /\ Summary.total = SchemaTotal

\* A page with most of its fields found, some not.
C2_Witness ==
    /\ ReturnedCli
    /\ rawText = Str(PageFull)
    /\ Summary.extracted > 15
    /\ Summary.extracted < Summary.total

\* ------------------------------------------------------------------- C3

\* C3: countDataPoints counts a leaf field as extracted exactly when its
\* value is neither null nor the string "N/A": extracted is the number of
\* such leaves, total the number of all leaves, and the _meta key of the
\* record is skipped.
C3_CountsHeldLeaves ==
    ReturnedCli =>
        /\ Summary.total = Cardinality(LeafPaths)
        /\ Summary.extracted = Cardinality(HeldPaths(LeafPaths))
        /\ countDataPoints(result) = Summary

\* A record with leaves that are null, leaves that are "N/A" and leaves
\* that hold a value.
C3_Witness ==
    /\ ReturnedCli
    /\ valuation.industryPE = NA
    /\ valuation.faceValue = Null
    /\ valuation.pbRatio \notin {Null, NA}
    /\ "_meta" \in DOMAIN result

\* ------------------------------------------------------------------- C4

\* A token with nothing numeric about it: no string, or a string without a
\* decimal digit (the empty string, a lone sign or separator, "abc").
IsGarbage(v) == v.k # "str" \/ \A i \in 1..Len(v.s) : v.s[i] \notin Digits

\* C4: parseIndianNumber maps "1,23,456.78", "₹ 937" and "12.5%" to
\* 123456.78, 937 and 12.5, and every garbage token to null.
C4_TokensAndGarbage ==
    numPc = "returned" =>
        /\ numArg = Str(<<"1",",","2","3",",","4","5","6",".","7","8">>) => numRes = Num(12345678, -2)
        /\ numArg = Str(<<"₹"," ","9","3","7">>) => numRes = Num(937, 0)
        /\ numArg = Str(<<"1","2",".","5","%">>) => numRes = Num(125, -1)
        /\ IsGarbage(numArg) => numRes = Null

\* ------------------------------------------------------------------- C5

\* The characters s[p..q-1] are decimal digits.
AllDigits(s, p, q) == \A k \in p..(q - 1) : s[k] \in Digits

\* s[p..q-1] is digits, digits "." digits with a digit on either side of
\* the dot.
IsMantissa(s, p, q) ==
    \/ q > p /\ AllDigits(s, p, q)
    \/ \E d \in p..(q - 1) :
        /\ s[d] = "." /\ q - p > 1
        /\ AllDigits(s, p, d) /\ AllDigits(s, d + 1, q)

\* s[p..] is empty, or an exponent: e or E, a sign or none, digits.
IsExponentOrNone(s, p) ==
    \/ p = Len(s) + 1
    \/ /\ p <= Len(s) /\ s[p] \in {"e", "E"}
       /\ \E r \in {p + 1, p + 2} :
            /\ r <= Len(s) /\ AllDigits(s, r, Len(s) + 1)
            /\ r = p + 2 => s[p + 1] \in {"+", "-"}

\* The whole of s is a decimal number, signed or not.
IsDecimalNumber(s) ==
    \E p \in {1, 2}, q \in 1..(Len(s) + 1) :
        /\ p = 2 => s # <<>> /\ s[1] \in {"+", "-"}
        /\ p <= q
        /\ IsMantissa(s, p, q)
        /\ IsExponentOrNone(s, q)

\* The token without rupee signs, commas and white space, and without one
\* percent sign at its end.
CleanedToken(s) == StripTrailingPercent(SelectChars(s, CurrencyAndSeparators))

\* C5: parseIndianNumber returns a finite number or null; when the cleaned
\* token is no decimal number the result is null, never a value that is
\* not finite and never the number of a prefix of the token.
C5_FiniteOrAbsent ==
    (numPc = "returned" /\ numArg.k = "str") =>
        /\ numRes.k \in {"num", "null"}
        /\ ~IsDecimalNumber(CleanedToken(numArg.s)) => numRes = Null

\* ------------------------------------------------------------------- C6

\* The first rupee sign of text is the one of "₹ 937", and the number ends
\* there.
FirstPriceIs937(text) ==
    \E i \in 1..Len(text) :
        /\ \A j \in 1..(i - 1) : text[j] # Rupee
        /\ StandsAt(text, i, LinePrice)
        /\ i + Len(LinePrice) <= Len(text)
              => text[i + Len(LinePrice)] \notin Digits \cup {",", "."}

\* The text of the scenario: the price first among the rupee figures, the
\* price-earnings ratio, the book value, the return on equity and the
\* promoters' row.
IsScenario(text) ==
    /\ FirstPriceIs937(text)
    /\ Holds(text, LinePE)
    /\ Holds(text, LineBookValue)
    /\ Holds(text, LineRoe)
    /\ Holds(text, LinePromoters)

\* C6: for a text of the scenario parseScreenerText yields cmp = 937,
\* peRatio = 20.3, bookValue = 337, pbRatio = 2.78, roe = 14.3,
\* promoter = 25.52 and promoterChange = -0.07.
C6_EndToEnd ==
    (Returned /\ IsScenario(rawText.s)) =>
        /\ result.priceVolume.cmp = Num(937, 0)
        /\ result.valuation.peRatio = Num(203, -1)
        /\ result.valuation.bookValue = Num(337, 0)
        /\ result.valuation.pbRatio = Num(278, -2)
        /\ result.financialStrength.roe = Num(143, -1)
        /\ result.shareholding.promoter = Num(2552, -2)
        /\ result.shareholding.promoterChange = Num(-7, -2)

\* The five fragments with the promoters' row first and the price last but
\* one.
C6_Witness ==
    /\ Returned
    /\ rawText = Str(JoinLines(<<LinePromoters, LineRoe, LinePE, LinePrice, LineBookValue>>))
    /\ result.shareholding.promoterChange = Num(-7, -2)

\* ------------------------------------------------------------------- C7

\* C7: without an explicit "trading at N times its book value" statement,
\* pbRatio is round(price / bookValue) to two places when the price and the
\* book value are both present and the book value is positive, and absent
\* when either is absent or the book value is not positive.
C7_DerivedPB ==
    (valuation # Unset /\ ~Contains(rawText.s, <<"t","r","a","d","i","n","g"," ","a","t">>)) =>
        IF /\ priceVolume.cmp # Null
           /\ valuation.bookValue # Null
           /\ valuation.bookValue.m > 0
        THEN valuation.pbRatio = RoundRatio2(priceVolume.cmp, valuation.bookValue)
        ELSE valuation.pbRatio = Null

\* ------------------------------------------------------------------- C8

\* C8: when the text states "trading at N times its book value", the final
\* pbRatio is N, whether or not a value can be derived from the price and
\* the book value.
C8_ExplicitPBOverrides ==
    (valuation # Unset /\ extractNumber(rawText.s, ReExplicitPB) # Null) =>
        valuation.pbRatio = extractNumber(rawText.s, ReExplicitPB)

\* ------------------------------------------------------------------- C9

\* No line break in text[p..q-1].
SameLine(text, p, q) == \A k \in p..(q - 1) : text[k] # "\n"

\* A date fragment starts at j: digits to the end of their run, white
\* space, a word character.
DateAt(text, j) ==
    /\ text[j] \in Digits
    /\ SpanEnd(text, SpanEnd(text, j, Digits), WhiteSpace) > SpanEnd(text, j, Digits)
    /\ SpanEnd(text, SpanEnd(text, j, Digits), WhiteSpace) <= Len(text)
    /\ text[SpanEnd(text, SpanEnd(text, j, Digits), WhiteSpace)] \in WordChars

\* A date fragment starts on the line of position p, at p or after it.
DatedFrom(text, p) ==
    \E j \in p..Len(text) : SameLine(text, p, j) /\ DateAt(text, j)

\* The keyword occurs with a date fragment after it on its line.
KeywordDated(text, keyword) ==
    \E i \in 1..Len(text) :
        OccursAt(text, i, keyword) /\ DatedFrom(text, i + Len(keyword))

\* Where "ESPS" must stand when "ESOP" stands at i: after white space, one
\* slash or none, and white space.
AfterSlash(text, a) == IF a <= Len(text) /\ text[a] = "/" THEN a + 1 ELSE a
EspsStart(text, i) ==
    SpanEnd(text, AfterSlash(text, SpanEnd(text, i + 4, WhiteSpace)), WhiteSpace)

\* "ESOP / ESPS" occurs with a date fragment after it on its line.
EsopDated(text) ==
    \E i \in 1..Len(text) :
        /\ OccursAt(text, i, <<"E","S","O","P">>)
        /\ OccursAt(text, EspsStart(text, i), <<"E","S","P","S">>)
        /\ DatedFrom(text, EspsStart(text, i) + 4)

\* The label of the action that the priority ESOP/ESPS > Dividend > Bonus >
\* Split selects, <<>> when no keyword is dated.
ActionByPriority(text) ==
    IF EsopDated(text) THEN <<"E","S","O","P","/","E","S","P","S">>
    ELSE IF KeywordDated(text, KeywordDividend) THEN <<"D","i","v","i","d","e","n","d"," ","(">>
    ELSE IF KeywordDated(text, KeywordBonus) THEN <<"B","o","n","u","s"," ","(">>
    ELSE IF KeywordDated(text, KeywordSplit) THEN <<"S","t","o","c","k"," ","S","p","l","i","t"," ","(">>
    ELSE <<>>

\* C9: the corporate action reported is that of the first keyword, in the
\* order ESOP/ESPS, Dividend, Bonus, Split, that occurs with a date
\* fragment, wherever the keywords stand in the text; the field is the
\* not-available marker exactly when no keyword occurs with one.
C9_ActionPriority ==
    corporateSignals # Unset =>
        IF ActionByPriority(rawText.s) = <<>>
        THEN corporateSignals.recentCorporateAction = (IF web THEN Null ELSE NA)
        ELSE /\ corporateSignals.recentCorporateAction \notin {Null, NA}
             /\ StandsAt(corporateSignals.recentCorporateAction.s, 1,
                         ActionByPriority(rawText.s))

\* The split first, the bonus issue next, the dividend last: the dividend
\* is reported.
C9_Witness ==
    /\ corporateSignals # Unset
    /\ rawText = Str(JoinLines(<<LineSplit, LineBonus, LineDividend>>))
    /\ StandsAt(corporateSignals.recentCorporateAction.s, 1, <<"D","i","v","i","d","e","n","d"," ","(">>)

\* ------------------------------------------------------------------ C10

\* None of the labels of the shareholding rows occurs in text.
NoShareholdingLabels(text) ==
    \A label \in {<<"P","r","o","m","o","t","e","r">>, <<"F","I","I">>, <<"D","I","I">>, <<"P","u","b","l","i","c">>} : ~Contains(text, label)

\* The leaves of the sections other than shareholding.
OtherPaths == {p \in LeafPaths : p[1] # "shareholding"}

\* C10: for a text with none of the shareholding labels, the four holdings
\* and promoterChange are absent, extracted counts none of them, and the
\* other five sections are what their extractors make of the text alone.
C10_NoShareholding ==
    (Returned /\ NoShareholdingLabels(rawText.s)) =>
        /\ \A f \in DOMAIN result.shareholding : result.shareholding[f] = Null
        /\ DOMAIN result.shareholding = ShareholdingKeys
        /\ ~web => Summary.extracted = Cardinality(HeldPaths(OtherPaths))
        /\ result.priceVolume = extractPriceVolume(rawText.s, web)
        /\ result.valuation = extractValuation(rawText.s, web)
        /\ result.financialStrength = extractFinancialStrength(rawText.s, web)
        /\ result.growth = extractGrowth(rawText.s, web)
        /\ result.corporateSignals = extractCorporateSignals(rawText.s, web)

\* A text with a price, a book value and an explicit ratio, and no
\* shareholding row.
C10_Witness ==
    /\ ReturnedCli
    /\ NoShareholdingLabels(rawText.s)
    /\ rawText = Str(JoinLines(<<LinePrice, LineBookValue, LineExplicitPB>>))
    /\ Summary.extracted > 0
    /\ result.shareholding.promoter = Null

\* ---------------------------------------------------------------- C11
SixSections(r) == [n \in SectionNames |-> r[n]]

\* Two finished calls came to the same thing: both threw the same error, or
\* both returned records equal in the six sections and, where there is a
\* _meta, in its source and its count (parsedAt is left free).
SameOutcome(a, b) ==
    /\ a.pc = b.pc
    /\ a.error = b.error
    /\ a.pc = "returned" =>
          /\ SixSections(a.result) = SixSections(b.result)
          /\ ("_meta" \in DOMAIN a.result) = ("_meta" \in DOMAIN b.result)
          /\ "_meta" \in DOMAIN a.result =>
                /\ a.result["_meta"].dataPoints = b.result["_meta"].dataPoints
                /\ a.result["_meta"].source = b.result["_meta"].source

\* The six sections a call with nothing before it computes from the text.
FreshSections(text, variant) ==
    [priceVolume |-> extractPriceVolume(text, variant),
     valuation |-> extractValuation(text, variant),
     financialStrength |-> extractFinancialStrength(text, variant),
     growth |-> extractGrowth(text, variant),
     shareholding |-> extractShareholding(text),
     corporateSignals |-> extractCorporateSignals(text, variant)]

SequentialRecord(text, variant) ==
    IF variant THEN FreshSections(text, variant)
    ELSE FreshSections(text, variant)
         @@ ("_meta" :> [parsedAt |-> now,
                         source |-> Meta.source,
                         dataPoints |-> countDataPoints(FreshSections(text, variant))])

C13_FixedFieldNames ==
    /\ \A n \in SectionNames :
          IsSet(SectionsObject[n]) => DOMAIN SectionsObject[n] = FieldNames[web][n]
    /\ pc = "returned" =>
          \A n \in SectionNames : DOMAIN result[n] = FieldNames[web][n]

\* Returned with a price found and no promoter's row, the fields of all six
\* sections being there.
C13_Witness ==
    /\ pc = "returned"
    /\ result.priceVolume.cmp # Null
    /\ result.shareholding.promoter = Null
    /\ result.shareholding.promoterChange = Null
    /\ result.growth.operatingMargin = Null

\* ---------------------------------------------------------------- C14
\* C14: as long as resetSession has not been called, the homepage has been
\* requested at most once, however many calls of initNSE there were and
\* however they overlapped.
C14_WarmupSentOnce == resets = 0 => homepage <= 1

\* ---------------------------------------------------------------- C15
\* The positions of a task that has been started and not been cut off.
TaskPositions == {"initReturned", "awaitHomepage", "awaitDelay", "initThrew",
                  "awaitFetch", "awaitFetch2", "fetchThrew", "printed", "reported"}

FailedLines(lines) == {i \in 1..Len(lines) : lines[i][1] = "failed"}

\* C15: once the warm-up has succeeded and the five tasks are started, none
\* of them is ever cut off by what happens to another; a task that failed
\* has printed its "<api> failed" line and nothing else, a task whose fetch
\* succeeded has printed its result and no such line, and main is done only
\* when all five have settled.
C15_TasksFailIndependently ==
    /\ (\E t \in Tasks : nsePc[t] # "off") =>
          /\ nsePc["main"] \in {"awaitTasks", "done"}
          /\ \A t \in Tasks :
                /\ nsePc[t] \in TaskPositions
                /\ nsePc[t] = "reported" => out[t] = <<Failed(t)>>
                /\ nsePc[t] = "printed" =>
                      /\ FailedLines(out[t]) = {}
                      /\ \/ out[t] # <<>>
                         \/ t = "trade_info" /\ ~raw
                /\ ~Settled(t) => FailedLines(out[t]) = {}
    /\ nsePc["main"] = "done" => \A t \in Tasks : Settled(t)

\* main is done, two of the tasks having failed and three having printed.
C15_Witness ==
    /\ nsePc["main"] = "done"
    /\ nsePc["quote-equity"] = "reported"
    /\ nsePc["shareholding"] = "reported"
    /\ nsePc["trade_info"] = "printed" /\ out["trade_info"] # <<>>
    /\ nsePc["corporate-actions"] = "printed"
    /\ nsePc["announcements"] = "printed"

\* ---------------------------------------------------------------- C16
\* The tokens of the row led by label: what stands after the label and the
\* optional "+", as far as the row's figures go, cut at white space.
RowTokens(text, label) ==
    LET match == Match(text, ReHolder(label))
    IN  IF match.ok
        THEN SelectSeq(SplitWs(Trim(Group(text, match, 1).s)), LAMBDA v : v # <<>>)
        ELSE <<>>

\* The field is the number the last token of the row stands for.
IsLastOfRow(field, row) ==
    Len(row) >= 1 =>
        /\ field.k = "num"
        /\ field = parseIndianNumber(Str(row[Len(row)]))

\* The change is the last token less the one before it, to two places, when
\* there are two tokens, and absent when there are not.
IsChangeOfRow(change, row) ==
    IF Len(row) >= 2
    THEN LET last == parseIndianNumber(Str(row[Len(row)]))
             before == parseIndianNumber(Str(row[Len(row) - 1]))
         IN  /\ last.k = "num" /\ before.k = "num"
             /\ change = RoundDiff2(last, before)
    ELSE change = Null

\* C16: each of promoter, fii, dii and public is the number of the last
\* token of the row its label leads, and promoterChange is the last token
\* of the promoter's row less the one before it, rounded to two places,
\* whenever the row has two tokens, and absent when it has fewer.
C16_LastTokenOfRow ==
    pc = "returned" =>
        /\ IsLastOfRow(result.shareholding.promoter, RowTokens(rawText.s, LabelPromoter))
        /\ IsLastOfRow(result.shareholding.fii, RowTokens(rawText.s, LabelFii))
        /\ IsLastOfRow(result.shareholding.dii, RowTokens(rawText.s, LabelDii))
        /\ IsLastOfRow(result.shareholding.public, RowTokens(rawText.s, LabelPublic))
        /\ IsChangeOfRow(result.shareholding.promoterChange,
                         RowTokens(rawText.s, LabelPromoter))

\* ---------------------------------------------------------------- C17
\* The flag of the record, as the parser at hand writes it.
AnnouncementFlag(signals) ==
    IF web THEN signals.hasAnnouncement = Bool(TRUE)
    ELSE signals.recentAnnouncement = Str(<<"Y","e","s">>)

\* The flag is up exactly when one of the phrases is there, and the
\* headline is the first hundred characters of the first of them, in the
\* order board meeting, regulations, RBI.
SignalsOfPhrases(text, signals, board, sebi, rbi) ==
    /\ AnnouncementFlag(signals) <=> (board.ok \/ sebi.ok \/ rbi.ok)
    /\ signals.announcementHeadline =
          (IF board.ok THEN Headline(text, board)
           ELSE IF sebi.ok THEN Headline(text, sebi)
           ELSE IF rbi.ok THEN Headline(text, rbi)
           ELSE Null)
    /\ Len(signals.announcementHeadline.s) <= HeadlineLimit

\* C17: the announcement flag is set exactly when the text has a board
\* meeting intimation or approval, an intimation or announcement under SEBI
\* or a regulation, or an approval of the RBI; the headline is that of the
\* first of the three that is there, in this order, and has at most a
\* hundred characters.
C17_AnnouncementByCategory ==
    pc = "returned" =>
        SignalsOfPhrases(rawText.s, result.corporateSignals,
                         Match(rawText.s, ReBoardMeeting(TRUE)),
                         Match(rawText.s, ReLodr),
                         Match(rawText.s, ReRbi))

\* ---------------------------------------------------------------- C18
\* The values of the row a match of an "EPS in Rs" pattern captured.
ValuesOfRow(text, match) ==
    IF match.ok THEN EpsValues(Group(text, match, 1).s) ELSE <<>>

\* The last value of the structural row when there is one, else the last
\* value of the first row anywhere, else nothing.
EpsOfRows(epsTTM, structural, anywhere) ==
    epsTTM = (IF Len(structural) > 0
              THEN parseIndianNumber(Str(structural[Len(structural)]))
              ELSE IF Len(anywhere) > 0
              THEN parseIndianNumber(Str(anywhere[Len(anywhere)]))
              ELSE Null)

\* C18: epsTTM is the last value of the "EPS in Rs" row of the Profit & Loss
\* block with its TTM column whenever that row is found, whatever the value;
\* only when it is not found is epsTTM the last value of the first
\* "EPS in Rs" row anywhere in the text.
C18_StructuralEpsFirst ==
    pc = "returned" =>
        EpsOfRows(result.financialStrength.epsTTM,
                  ValuesOfRow(rawText.s, Match(rawText.s, RePlSection)),
                  ValuesOfRow(rawText.s, Match(rawText.s, ReEpsRow)))

\* ---------------------------------------------------------------- C19
\* The label of the row and the white space after it.
MarginLabel ==
    LitI(<<"F","i","n","a","n","c","i","n","g">>) \o <<WsPlus>> \o LitI(<<"M","a","r","g","i","n">>)
    \o <<WsPlus, In({"%"}), WsPlus>>

\* The tokens of the whole row: what stands between the label and the end
\* of the line, cut at white space.
WholeRow(text, label) ==
    IF label.ok
    THEN LET stop == SetMin({i \in label.end..(Len(text) + 1) :
                                i = Len(text) + 1 \/ text[i] = "\n"})
         IN  SelectSeq(SplitWs(Trim(SubSeq(text, label.end, stop - 1))),
                       LAMBDA v : v # <<>>)
    ELSE <<>>

\* The margin is the last token that is a number, with its percent sign,
\* and absent when no token is.
MarginOfRow(margin, tokens, numeric) ==
    margin = (IF numeric = {}
              THEN (IF web THEN Null ELSE NA)
              ELSE Str(WithPercent(tokens[SetMax(numeric)])))

NumericOf(tokens) == {i \in 1..Len(tokens) : IsNumeric(tokens[i])}

MarginOfTokens(margin, tokens) == MarginOfRow(margin, tokens, NumericOf(tokens))

\* C19: operatingMargin is the last token of the whole "Financing Margin %"
\* row that parses as a number, the tokens after it that do not being
\* passed over, written with a percent sign; it is absent when the row has
\* no such token or the text has no such row.
C19_LastNumericOfRow ==
    pc = "returned" =>
        MarginOfTokens(result.growth.operatingMargin,
                       WholeRow(rawText.s, Match(rawText.s, MarginLabel)))

\* ---------------------------------------------------------------- C20
\* The field of the record is absent: null, or the "N/A" the command line's
\* parser writes for a field it did not find.
AbsentField(value) == value = Null \/ value = NA

\* The entry shows the placeholder: null in the object App.jsx renders,
\* "null" or "N/A" in the lines of the command line.
ShowsPlaceholder(entry) ==
    IF web THEN entry = Null
    ELSE entry = Str(<<"n","u","l","l">>) \/ entry = NA

ShownFields == IF web THEN FormattedFields ELSE FlatFields

\* C20: every entry the presentation shows is the placeholder exactly when
\* the field of the record it shows is absent: an absent field always comes
\* out as the placeholder, a present one never does, whatever its value.
C20_PlaceholderIffAbsent ==
    pc = "shown" =>
        \A n \in SectionNames : \A label \in DOMAIN ShownFields[n] :
            ShowsPlaceholder(display[n][label])
                <=> AbsentField(result[n][ShownFields[n][label]])

\* ---------------------------------------------------------------- C21
\* The fields that carry one numeric metric, as <<section, field>>: prices,
\* ratios, rates of growth, margins and holdings.  marketCap, the ranges
\* written "high / low", the dates, actions and headlines are texts.
MetricPaths ==
    {<<"priceVolume", f>> : f \in {"cmp", "week52High", "week52Low"}}
    \cup {<<"valuation", f>> : f \in {"peRatio", "pbRatio", "bookValue", "faceValue"}}
    \cup {<<"financialStrength", f>> : f \in {"epsTTM", "roe", "roce"}}
    \cup {<<"growth", f>> : f \in GrowthKeys}
    \cup {<<"shareholding", f>> : f \in ShareholdingKeys}

\* A raw number, the infinities included.
IsRawNumber(value) == value.k \in {"num", "inf"}

\* C21: in the record parseScreenerText returns, every field that carries
\* a numeric metric holds a raw number or the absence marker, never a
\* string written with a currency sign or a percent sign.
C21_MetricsAreRawNumbers ==
    pc = "returned" =>
        \A p \in MetricPaths :
            IsRawNumber(result[p[1]][p[2]]) \/ AbsentField(result[p[1]][p[2]])

\* ---------------------------------------------------------------- C22
\* The error is a 4xx: its status is a number of the four hundreds.
IsStatus4xx(err) == Len(err.status) = 3 /\ err.status[1] = "4"

\* A step in which a request of fetchShareholdingBestEffort fails.
ShareholdingRequestFails ==
    /\ nsePc["shareholding"] \in {"awaitFetch", "awaitFetch2"}
    /\ thrown'["shareholding"] # thrown["shareholding"]
    /\ IsSet(thrown'["shareholding"])

\* A step in which fetchShareholdingBestEffort sends a request.
ShareholdingRequests ==
    requests'["shareholding"] # requests["shareholding"]

EndpointsLeft ==
    Len(requests["shareholding"]) < Len(Endpoints("shareholding"))

ShareholdingSteps ==
    /\ ShareholdingRequests =>
          /\ requests'["shareholding"]
                = SubSeq(Endpoints("shareholding"), 1, Len(requests["shareholding"]) + 1)
          /\ requests["shareholding"] # <<>> =>
                ShareholdingRequestFails /\ IsStatus4xx(thrown'["shareholding"])
    /\ (ShareholdingRequestFails /\ IsStatus4xx(thrown'["shareholding"]) /\ EndpointsLeft)
          => ShareholdingRequests
    /\ (ShareholdingRequestFails /\ ~IsStatus4xx(thrown'["shareholding"]))
          => /\ ~ShareholdingRequests
             /\ nsePc'["shareholding"] = "fetchThrew"
    /\ (nsePc'["shareholding"] \in {"resolved", "printed"}
        /\ nsePc["shareholding"] \in {"awaitFetch", "awaitFetch2"})
          => ~ShareholdingRequests
    /\ (nsePc'["shareholding"] = "fetchThrew" /\ nsePc["shareholding"] # "fetchThrew")
          => thrown'["shareholding"].url
                = requests["shareholding"][Len(requests["shareholding"])]

\* C22: fetchShareholdingBestEffort requests corporate-share-holdings and
\* then shareholding-pattern; it requests the next endpoint exactly when
\* the one before failed with a 4xx status, returns the first success
\* without a further request, throws a failure that is no 4xx on at once,
\* and throws the error of the last endpoint requested when all failed.
C22_EndpointsInOrder == [][ShareholdingSteps]_vars

\* ---------------------------------------------------------------- C23
\* C23: a fetcher of nseData.js has requested an API endpoint only if a
\* homepage request has been answered before, and a fetcher whose warm-up
\* failed has requested none.
C23_WarmupBeforeRequests ==
    \A t \in Tasks :
        /\ requests[t] # <<>> => answered >= 1
        /\ nsePc[t] = "initThrew" => requests[t] = <<>>

\* One fetcher has been rejected by a failed warm-up, after a reset of the
\* session, while another has its request out.
C23_Witness ==
    /\ resets = 1
    /\ \E t \in Tasks : nsePc[t] = "initThrew" /\ requests[t] = <<>>
    /\ \E t \in Tasks : nsePc[t] = "awaitFetch" /\ requests[t] # <<>>

\* ---------------------------------------------------------------- C24
\* A step in which the fetchYahooData of click i comes to its end.
YahooEnds(i) == calls[i].pc \in {"chart", "chartJson", "summary", "summaryJson"}
                /\ calls'[i].pc \notin {"chart", "chartJson", "summary", "summaryJson"}

LiveFields == {"dayHigh", "dayLow", "volume", "avgVolume10d", "debtToEquity"}
ChartDerived == {"dayHigh", "dayLow", "volume", "avgVolume10d"}

\* The output holds screener data.
HasScreener(o) == o # Null /\ "screener" \in DOMAIN o

YahooTolerates(i) ==
    /\ calls'[i].pc = "finished"
    /\ calls'[i].chart = "failed" =>
          /\ \A f \in LiveFields : calls'[i].yahoo[f] = Null
          /\ "error" \in DOMAIN calls'[i].yahoo
          /\ calls'[i].yahoo.error # ""
    /\ (calls'[i].chart = "ok" /\ calls'[i].summary = "failed") =>
          /\ calls'[i].yahoo.debtToEquity = Null
          /\ \A f \in ChartDerived : calls'[i].yahoo[f] = calls[i].fields[f]
          /\ "error" \notin DOMAIN calls'[i].yahoo
    /\ ("failed" \in {calls'[i].chart, calls'[i].summary}) =>
          /\ appError' = appError
          /\ HasScreener(appOutput) =>
                /\ HasScreener(appOutput')
                /\ appOutput'.screener = appOutput.screener

\* C24: fetchYahooData always returns; after a failure of the chart request
\* it returns the five live fields as null with an error message, after a
\* failure of the summary request alone it returns debtToEquity as null and
\* the fields of the chart as they were derived; and in App such a return
\* leaves the error state and the screener data of the output as they were.
C24_YahooFailureTolerated ==
    [][\A i \in 1..MaxClicks : YahooEnds(i) => YahooTolerates(i)]_vars

\* One click has ended with a failed chart request and the other with a
\* failed summary request after a chart with a volume, the screener data
\* being shown and no error set.
C24_Witness ==
    /\ calls[1].pc = "finished" /\ calls[1].chart = "failed"
    /\ calls[2].pc = "finished" /\ calls[2].summary = "failed"
    /\ calls[2].yahoo.volume # Null
    /\ appError = Null
    /\ HasScreener(appOutput)
    /\ appOutput.screener = FormattedInApp(calls[2].text)

\* ---------------------------------------------------------------- C25
\* The fields a Screener page cannot fill, as <<section, field>>.
UnavailablePaths ==
    {<<"priceVolume", "volumeToday">>, <<"priceVolume", "avgVolume10d">>,
     <<"valuation", "industryPE">>, <<"financialStrength", "debtToEquity">>}

YesOrNo == {Str(<<"Y","e","s">>), Str(<<"N","o">>)}

\* C25: in every record screenerParser.js returns, volumeToday,
\* avgVolume10d, industryPE and debtToEquity are "N/A" and
\* recentAnnouncement is "Yes" or "No", so that extracted is at least 1 and
\* at most total - 4.
C25_ExtractedBetween ==
    ReturnedCli =>
        /\ \A p \in UnavailablePaths : result[p[1]][p[2]] = NA
        /\ result.corporateSignals.recentAnnouncement \in YesOrNo
        /\ Summary.extracted >= 1
        /\ Summary.extracted <= Summary.total - Cardinality(UnavailablePaths)

\* Returned for a text in which no pattern matches: no price, no
\* announcement, and still a count of at least 1.
C25_Witness ==
    /\ ReturnedCli
    /\ rawText = Str(<<"n","o"," ","d","a","t","a">>)
    /\ result.corporateSignals.recentAnnouncement = Str(<<"N","o">>)
    /\ result.priceVolume.cmp = Null
    /\ Summary.extracted >= 1

\* ---------------------------------------------------------------- C26
\* C26: in the shareholding record, as extractShareholding returns it and
\* as parseScreenerText hands it on, promoterChange is present only if
\* promoter is.
C26_ChangeOnlyWithPromoter ==
    /\ IsSet(shareholding) =>
          (shareholding.promoterChange # Null => shareholding.promoter # Null)
    /\ pc = "returned" =>
          (result.shareholding.promoterChange # Null
              => result.shareholding.promoter # Null)

\* Returned for a promoters' row of two figures, with the holding and its
\* change both there.
C26_Witness ==
    /\ pc = "returned"
    /\ Len(HoldingValues(rawText.s, LabelPromoter)) >= 2
    /\ result.shareholding.promoter # Null
    /\ result.shareholding.promoterChange # Null

\* ---------------------------------------------------------------- C27
HeadlineGoesWithFlag(signals) ==
    /\ AnnouncementFlag(signals) => NonEmptyString(signals.announcementHeadline)
    /\ ~AnnouncementFlag(signals) => signals.announcementHeadline = Null

\* C27: in the corporateSignals record, as its extractor returns it and as
\* parseScreenerText hands it on, the headline is a non-empty string when
\* the announcement flag is set and absent when it is not.
C27_HeadlineIffFlag ==
    /\ IsSet(corporateSignals) => HeadlineGoesWithFlag(corporateSignals)
    /\ pc = "returned" => HeadlineGoesWithFlag(result.corporateSignals)

\* Returned by the browser's parser for a text whose only announcement is
\* the one under the SEBI rules, flag and headline both there.
C27_Witness ==
    /\ pc = "returned" /\ web
    /\ ~Match(rawText.s, ReBoardMeeting(web)).ok
    /\ ~Match(rawText.s, ReRbi).ok
    /\ AnnouncementFlag(result.corporateSignals)
    /\ NonEmptyString(result.corporateSignals.announcementHeadline)

\* ---------------------------------------------------------------- C28
\* The text of the most recent click of Extract.
LatestText == calls[clicks].text

\* C28: whenever the output of App is not null, it holds screener data,
\* and they are the formatted record of the text of the most recent click
\* of Extract, which passed the check of handleExtract.
C28_OutputOfLatestExtract ==
    appOutput # Null =>
        /\ HasScreener(appOutput)
        /\ Trim(LatestText) # <<>>
        /\ appOutput.screener = FormattedInApp(LatestText)

\* ---------------------------------------------------------------- C29
QuoteTasks == {"quote-equity", "trade_info"}
QuoteLabels == {QuoteFields[k] : k \in DOMAIN QuoteFields}
               \cup {TradeInfoFields[k] : k \in DOMAIN TradeInfoFields}

\* Where the lines hold the header, and where they hold a Quote field.
HeaderAt(lines) == {k \in DOMAIN lines : lines[k] = Section("Quote")}
FieldAt(lines) == {k \in DOMAIN lines : lines[k] \in QuoteLabels}

\* How many times the header is out, over all that was printed.
HeadersOut(printed) ==
    Cardinality(HeaderAt(printed["quote-equity"]))
    + Cardinality(HeaderAt(printed["trade_info"]))

\* The lines task t prints in this step.
NewLines(t) == SubSeq(out'[t], Len(out[t]) + 1, Len(out'[t]))

QuoteHeaderSteps ==
    /\ HeadersOut(out') <= 1
    /\ \A t \in QuoteTasks :
          FieldAt(NewLines(t)) # {} =>
              \/ HeadersOut(out) = 1 /\ HeaderAt(NewLines(t)) = {}
              \/ /\ HeadersOut(out) = 0
                 /\ \E h \in HeaderAt(NewLines(t)) :
                       \A k \in FieldAt(NewLines(t)) : h < k
    /\ (\A t \in QuoteTasks : nsePc'[t] = "reported") => HeadersOut(out') = 0

\* C29: in a run of the NSE CLI the "Quote" header is printed at most once
\* and before the first Quote field, whichever of the quote-equity and
\* trade_info tasks prints first and also when both print; when both tasks
\* fail it is not printed.
C29_QuoteHeaderOnce == [][QuoteHeaderSteps]_vars

\* Both tasks have printed their fields, trade_info with the header and
\* quote-equity, which came after, without it.
C29_Witness ==
    /\ nsePc["quote-equity"] = "printed" /\ nsePc["trade_info"] = "printed"
    /\ HeaderAt(out["trade_info"]) # {}
    /\ HeaderAt(out["quote-equity"]) = {}
    /\ FieldAt(out["quote-equity"]) # {}
    /\ FieldAt(out["trade_info"]) # {}

\* ---------------------------------------------------------------- C30
\* A step in which the initNSE of p rejects because its homepage request
\* failed, and one in which p calls initNSE.
WarmupRejects(p) == nsePc[p] = "awaitHomepage" /\ nsePc'[p] = "initThrew"
InitNSECalled(p) == nsePc[p] \in {"idle", "start"} /\ nsePc'[p] # nsePc[p]

WarmupSteps ==
    /\ \A p \in AllProcs : WarmupRejects(p) => ~initialized'
    /\ resets' # resets => ~initialized'
    /\ \A p \in AllProcs :
          (InitNSECalled(p) /\ ~initialized) => homepage' = homepage + 1
    /\ initialized' => answered' >= 1

\* C30: when the homepage request of initNSE fails, initNSE rejects and
\* initialized is false afterwards, and so it is after resetSession; a call
\* of initNSE that finds it false sends a new homepage request; and
\* initialized is true only when a homepage request has been answered.
C30_FailedWarmupRetried == [][WarmupSteps]_vars

====
